---------------------------- MODULE Spec2Model ----------------------------
(***************************************************************************)
(* Model of the MetaForge data pipeline (scripts/fetch-metaforge-data.mjs) *)
(*                                                                         *)
(*   Spec        the main loop over ENDPOINTS calling fetchAll: one action *)
(*               per iteration of fetchAll's while loop, by the kind of    *)
(*               response the upstream gives to the page request.          *)
(*   FairSpec    Spec with weak fairness of the program's steps.           *)
(*   SpecWeapons processWeapons applied to bounded lists of weapon records.*)
(*   SpecRerun   the weapons run made twice on the same items collection.  *)
(*   SpecMaps    fetchMapData: one action per response to a map request.   *)
(*                                                                         *)
(* and of the site that serves the data:                                   *)
(*                                                                         *)
(*   SpecProxy   the proxy function (netlify/functions/proxy.js and its    *)
(*               caching version), one event at a time.                    *)
(*   SpecClient  the load effect of the explorer components over           *)
(*               localStorage; FairSpecClient adds that requests settle.   *)
(***************************************************************************)
EXTENDS Integers, Sequences, FiniteSets, TLC

VARIABLES
    pc,          \* position of the script: "main", "loop" (about to request
                 \* page), "sleep10000", "sleep5000", "sleep1500" (awaiting a
                 \* sleep), "returned", "loopDone"
    epIdx,       \* index into ENDPOINTS of the main for-loop
    endpoint,    \* fetchAll's argument
    page,        \* fetchAll: let page
    all,         \* fetchAll: let all
    retval,      \* the value fetchAll returned to main
    allItems,    \* main: let allItems
    files,       \* OUTPUT_DIR: the pretty and the minified file of each
                 \* endpoint written so far
    nReq,        \* history: number of page requests the running fetchAll issued
    fetched,     \* history: the ok responses the running fetchAll received
    lastStatus,  \* history: kind of the last response handled
    n429,        \* history: number of 429 answers the running fetchAll received
    wpc,         \* weapons run: "input", "done"
    weapons,     \* weapons run: the argument of processWeapons
    processed,   \* weapons run: the value processWeapons returned
    mpc,         \* fetchMapData: "main", "fetch" (about to request the map),
                 \* "sleep10000", "retry" (about to repeat the request),
                 \* "sleep1500", "done"
    mapIdx,      \* fetchMapData: index into MAPS of the for-loop
    allMaps,     \* fetchMapData: const allMaps
    mapFiles,    \* OUTPUT_DIR: maps.json and maps.min.json
    mapReqs,     \* history: number of requests issued for the current map
    deployed,    \* proxy: the handler deployed, "proxy.js" or "part_003"
    ppc,         \* proxy: "idle", "handling" (an event was dispatched to the
                 \* handler), "awaiting" (the handler awaits the upstream fetch)
    pevent,      \* proxy: the event of the running invocation
    cacheFiles,  \* proxy: the files of CACHE_DIR, by target
    response,    \* proxy: what the last invocation returned
    upstream,    \* history: the upstream response of the running invocation
    component,   \* client: the component rendered
    mounted,     \* client: whether the component is mounted
    active,      \* client: the endpoint the component's state selects
    data,        \* client: useState data
    loading,     \* client: useState loading
    error,       \* client: useState error, Null or a message
    localStorage,\* client: the browser's localStorage, by key
    effects,     \* client: the instances of the load effect run so far, each
                 \* with its endpoint, its ignore flag and the state of its
                 \* foreground and background request
    shown        \* history: the effect instance that last called setData,
                 \* and from what

fetchVars == <<pc, epIdx, endpoint, page, all, retval, allItems, files,
               nReq, fetched, lastStatus, n429>>
weaponVars == <<wpc, weapons, processed>>
mapVars == <<mpc, mapIdx, allMaps, mapFiles, mapReqs>>
proxyVars == <<deployed, ppc, pevent, cacheFiles, response, upstream>>
clientVars == <<component, mounted, active, data, loading, error,
                localStorage, effects, shown>>
siteVars == <<mapVars, proxyVars, clientVars>>
vars == <<fetchVars, weaponVars, siteVars>>

(***************************************************************************)
(* Program constants                                                       *)
(***************************************************************************)
ENDPOINTS == <<"items", "arcs", "quests">>

PageSize == 50

(***************************************************************************)
(* Bounds of the model                                                     *)
(***************************************************************************)
\* the upstream serves at most this many full pages per collection
MaxFullPages == 2

\* the history counter of 429 answers stops counting here
Max429 == 2

\* the request counter stops counting here: one more than a run without
\* retries can issue
MaxReq == MaxFullPages + 2

\* length of the short (final) page the upstream may serve
ShortLens == {37}

\* what a page holds: a mix of item types, or Misc records only (items)
PageKinds == {"mixed", "allMisc"}

KindsOf(ep) == IF ep = "items" THEN PageKinds ELSE {"mixed"}

(***************************************************************************)
(* The upstream                                                            *)
(***************************************************************************)
ItemTypeOf(kind, i) ==
    IF kind = "allMisc" THEN "Misc"
    ELSE IF i % 3 = 0 THEN "Misc"
    ELSE IF i % 3 = 1 THEN "Weapon"
    ELSE "Material"

\* the records of page p, n of them
PageOf(p, n, kind) ==
    [i \in 1..n |-> [id |-> (p - 1) * PageSize + i, item_type |-> ItemTypeOf(kind, i)]]

\* a parsed response body: a bare array, an object with a data array, or
\* an object without one
Body(shape, arr) == [shape |-> shape, data |-> arr]

BodyShapes == {"array", "wrapped", "other"}

(***************************************************************************)
(* fetchAll                                                                *)
(***************************************************************************)
\* const arr = Array.isArray(data) ? data : data?.data || []
ExtractArr(body) ==
    IF body.shape = "array" THEN body.data
    ELSE IF body.shape = "wrapped" THEN body.data
    ELSE <<>>

FilterMiscNothing(arr) == arr

\* arr.filter((item) => item.item_type !== 'Misc')
FilterMisc(arr) == SelectSeq(arr, LAMBDA item : item.item_type # "Misc")

AccumulateInFront(ep, acc, arr) ==
    IF ep = "items" THEN FilterMisc(arr) \o acc ELSE arr \o acc

\* the concat of one page onto all
Accumulate(ep, acc, arr) ==
    IF ep = "items" THEN acc \o FilterMisc(arr) ELSE acc \o arr

IsShortPageInclusive(arr) == Len(arr) <= PageSize

\* if (arr.length < 50) break
IsShortPage(arr) == Len(arr) < PageSize

StopsOnErrorNever(acc) == FALSE

\* catch: if (all.length > 0) break
StopsOnError(acc) == Len(acc) > 0

\* JSON.stringify(all, null, 2) and JSON.stringify(all)
JSONstringify(value, indent) == [indent |-> indent, json |-> value]

\* the two writeFileSync calls after the loop
WriteFiles(ep, acc) ==
    [e \in DOMAIN files \cup {ep} |->
        IF e = ep
        THEN [pretty |-> JSONstringify(acc, 2), min |-> JSONstringify(acc, 0)]
        ELSE files[e]]

Count(n, max) == IF n < max THEN n + 1 ELSE n

\* leaving the while loop: write the files and return all
Break(acc) ==
    /\ files' = WriteFiles(endpoint, acc)
    /\ retval' = acc
    /\ pc' = "returned"

CallFetchAllCreatesFile ==
    /\ pc = "main"
    /\ epIdx <= Len(ENDPOINTS)
    /\ endpoint' = ENDPOINTS[epIdx]
    /\ page' = 1
    /\ all' = <<>>
    /\ pc' = "loop"
    /\ nReq' = 0
    /\ fetched' = <<>>
    /\ lastStatus' = "none"
    /\ n429' = 0
    /\ files' = WriteFiles(ENDPOINTS[epIdx], <<>>)
    /\ UNCHANGED <<epIdx, retval, allItems, weaponVars, siteVars>>

\* for (const ep of ENDPOINTS) { const data = await fetchAll(ep)
CallFetchAll ==
    /\ pc = "main"
    /\ epIdx <= Len(ENDPOINTS)
    /\ endpoint' = ENDPOINTS[epIdx]
    /\ page' = 1
    /\ all' = <<>>
    /\ pc' = "loop"
    /\ nReq' = 0
    /\ fetched' = <<>>
    /\ lastStatus' = "none"
    /\ n429' = 0
    /\ UNCHANGED <<epIdx, retval, allItems, files, weaponVars, siteVars>>

FetchRateLimitedSkipsPage ==
    /\ pc = "loop"
    /\ nReq' = Count(nReq, MaxReq)
    /\ lastStatus' = "429"
    /\ n429' = Count(n429, Max429)
    /\ pc' = "sleep10000"
    /\ page' = page + 1
    /\ UNCHANGED <<epIdx, endpoint, all, retval, allItems, files,
                   fetched, weaponVars, siteVars>>

FetchRateLimitedCapped ==
    /\ pc = "loop"
    /\ nReq' = Count(nReq, MaxReq)
    /\ lastStatus' = "429"
    /\ n429' = Count(n429, Max429)
    /\ IF n429 >= 1
       THEN Break(all)
       ELSE pc' = "sleep10000" /\ UNCHANGED <<retval, files>>
    /\ UNCHANGED <<epIdx, endpoint, page, all, allItems, fetched, weaponVars, siteVars>>

\* one iteration: res.status === 429, sleep, continue
FetchRateLimited ==
    /\ pc = "loop"
    /\ nReq' = Count(nReq, MaxReq)
    /\ lastStatus' = "429"
    /\ n429' = Count(n429, Max429)
    /\ pc' = "sleep10000"
    /\ UNCHANGED <<epIdx, endpoint, page, all, retval, allItems, files,
                   fetched, weaponVars, siteVars>>

\* one iteration: fetch rejects, !res.ok throws, or res.json() throws
FetchError ==
    /\ pc = "loop"
    /\ nReq' = Count(nReq, MaxReq)
    /\ lastStatus' = "error"
    /\ IF StopsOnError(all)
       THEN Break(all)
       ELSE pc' = "sleep5000" /\ UNCHANGED <<retval, files>>
    /\ UNCHANGED <<epIdx, endpoint, page, all, allItems, fetched, n429, weaponVars, siteVars>>

\* one iteration: an ok response with a parsed body
FetchOk ==
    /\ pc = "loop"
    /\ \E n \in {0, PageSize} \cup ShortLens, kind \in KindsOf(endpoint), shape \in BodyShapes :
         /\ n = PageSize => page <= MaxFullPages
         /\ LET arr == ExtractArr(Body(shape, PageOf(page, n, kind)))
                acc == Accumulate(endpoint, all, arr)
            IN /\ nReq' = Count(nReq, MaxReq)
               /\ lastStatus' = "ok"
               /\ fetched' = Append(fetched, [page |-> page, len |-> Len(arr), kind |-> kind])
               /\ IF Len(arr) = 0
                  THEN Break(all) /\ UNCHANGED <<page, all>>
                  ELSE /\ all' = acc
                       /\ IF IsShortPage(arr)
                          THEN Break(acc) /\ UNCHANGED page
                          ELSE /\ page' = page + 1
                               /\ pc' = "sleep1500"
                               /\ UNCHANGED <<retval, files>>
    /\ UNCHANGED <<epIdx, endpoint, allItems, n429, weaponVars, siteVars>>

\* a sleep of the loop elapses: the next iteration starts
Wake ==
    /\ pc \in {"sleep10000", "sleep5000", "sleep1500"}
    /\ pc' = "loop"
    /\ UNCHANGED <<epIdx, endpoint, page, all, retval, allItems, files, nReq,
                   fetched, lastStatus, n429, weaponVars, siteVars>>

ReturnRethrows ==
    /\ pc = "returned"
    /\ allItems' = IF endpoint = "items" THEN retval ELSE allItems
    /\ epIdx' = epIdx + 1
    /\ pc' = IF lastStatus = "error" THEN "failed"
             ELSE IF epIdx + 1 > Len(ENDPOINTS) THEN "loopDone" ELSE "main"
    /\ UNCHANGED <<endpoint, page, all, retval, files, nReq, fetched,
                   lastStatus, n429, weaponVars, siteVars>>

\* main resumes after await fetchAll(ep): if (ep === 'items') allItems = data
Return ==
    /\ pc = "returned"
    /\ allItems' = IF endpoint = "items" THEN retval ELSE allItems
    /\ epIdx' = epIdx + 1
    /\ pc' = IF epIdx + 1 > Len(ENDPOINTS) THEN "loopDone" ELSE "main"
    /\ UNCHANGED <<endpoint, page, all, retval, files, nReq, fetched,
                   lastStatus, n429, weaponVars, siteVars>>

(***************************************************************************)
(* processWeapons                                                          *)
(*                                                                         *)
(* A string is a sequence of one-character strings.  A stat_block is a     *)
(* function from the stat names it holds to numbers; a name outside its    *)
(* domain reads as undefined, and a record without stat_block is one with  *)
(* the empty stat_block (variant.stat_block || {}).  The JavaScript values *)
(* true, false, undefined and 0 that hasDirectOverrides.fireRate can take  *)
(* are written "true", "false", "undefined" and "0".                       *)
(***************************************************************************)
StatKeys == {"damage", "fireRate", "range", "stability", "agility", "stealth",
             "magazineSize", "weight", "damagePerSecond"}

ModifierKeys == {"increasedFireRate", "reducedReloadTime", "increasedBulletVelocity",
                 "reducedDurabilityBurnRate", "reducedMaxShotDispersion",
                 "reducedPerShotDispersion", "reducedDispersionRecoveryTime",
                 "reducedRecoilRecoveryTime", "increasedRecoilRecoveryTime"}

\* the alternatives of the two regular expressions
RomanNumerals == {<<"I">>, <<"I", "I">>, <<"I", "I", "I">>, <<"I", "V">>, <<"V">>}

\* const romanToNumber = { I: 1, II: 2, III: 3, IV: 4, V: 5 }
romanToNumber ==
    (<<"I">> :> 1) @@ (<<"I", "I">> :> 2) @@ (<<"I", "I", "I">> :> 3)
        @@ (<<"I", "V">> :> 4) @@ (<<"V">> :> 5)

\* \s
IsSpace(c) == c = " "

\* the letters of the alternatives under the i flag
UpperChar(c) == IF c = "i" THEN "I" ELSE IF c = "v" THEN "V" ELSE c

UpperCase(str) == [k \in 1..Len(str) |-> UpperChar(str[k])]

Suffix(str, i) == SubSeq(str, i, Len(str))

\* /\s+(I|II|III|IV|V)$/i matches at position i
SuffixMatchAt(str, i) ==
    \E j \in (i + 1)..Len(str) :
        /\ \A k \in i..(j - 1) : IsSpace(str[k])
        /\ UpperCase(Suffix(str, j)) \in RomanNumerals

Min(S) == CHOOSE x \in S : \A y \in S : x <= y

\* the same without the i flag
StripLevelSuffixCaseSensitive(str) ==
    LET starts == {i \in 1..Len(str) :
                     \E j \in (i + 1)..Len(str) :
                         /\ \A k \in i..(j - 1) : IsSpace(str[k])
                         /\ Suffix(str, j) \in RomanNumerals}
    IN IF starts = {} THEN str ELSE SubSeq(str, 1, Min(starts) - 1)

\* name.replace(/\s+(I|II|III|IV|V)$/i, '')
StripLevelSuffix(str) ==
    LET starts == {i \in 1..Len(str) : SuffixMatchAt(str, i)}
    IN IF starts = {} THEN str ELSE SubSeq(str, 1, Min(starts) - 1)

\* String.prototype.trim
Trim(str) ==
    LET solid == {i \in 1..Len(str) : ~IsSpace(str[i])}
    IN IF solid = {} THEN <<>>
       ELSE SubSeq(str, Min(solid), CHOOSE x \in solid : \A y \in solid : y <= x)

\* the strings of normalizeSubcategory
Ferro == <<"F", "e", "r", "r", "o">>

Renegade == <<"R", "e", "n", "e", "g", "a", "d", "e">>

Torrente == <<"T", "o", "r", "r", "e", "n", "t", "e">>

Osprey == <<"O", "s", "p", "r", "e", "y">>

Stitcher == <<"S", "t", "i", "t", "c", "h", "e", "r">>

IlToro == <<"I", "l", " ", "T", "o", "r", "o">>

HandCannon == <<"H", "a", "n", "d", " ", "C", "a", "n", "n", "o", "n">>

Pistol == <<"P", "i", "s", "t", "o", "l">>

BattleRifle == <<"B", "a", "t", "t", "l", "e", " ", "R", "i", "f", "l", "e">>

Rifle == <<"R", "i", "f", "l", "e">>

LMG == <<"L", "M", "G">>

SniperRifle == <<"S", "n", "i", "p", "e", "r", " ", "R", "i", "f", "l", "e">>

SMG == <<"S", "M", "G">>

Shotgun == <<"S", "h", "o", "t", "g", "u", "n">>

\* String.prototype.includes
Includes(str, sub) ==
    \E i \in 1..(Len(str) - Len(sub) + 1) : SubSeq(str, i, i + Len(sub) - 1) = sub

\* the renaming rules applied to weapon.subcategory || ''
RenamedSubcategory(weapon) ==
    LET declared == IF "subcategory" \in DOMAIN weapon THEN weapon.subcategory ELSE <<>>
        trimmed == Trim(declared)
    IN IF declared = <<>> THEN <<>>
       ELSE IF trimmed = HandCannon THEN Pistol
       ELSE IF trimmed = BattleRifle THEN Rifle
       ELSE trimmed

\* the same with the name rules applied only when nothing is declared
normalizeSubcategoryDeclaredFirst(weapon) ==
    IF RenamedSubcategory(weapon) # <<>> THEN RenamedSubcategory(weapon)
    ELSE IF Includes(weapon.name, Ferro) \/ Includes(weapon.name, Renegade) THEN Rifle
    ELSE IF Includes(weapon.name, Torrente) THEN LMG
    ELSE IF Includes(weapon.name, Osprey) THEN SniperRifle
    ELSE IF Includes(weapon.name, Stitcher) THEN SMG
    ELSE IF Includes(weapon.name, IlToro) THEN Shotgun
    ELSE <<>>

\* function normalizeSubcategory(weapon)
normalizeSubcategory(weapon) ==
    IF "name" \notin DOMAIN weapon \/ weapon.name = <<>> THEN RenamedSubcategory(weapon)
    ELSE IF Includes(weapon.name, Ferro) \/ Includes(weapon.name, Renegade) THEN Rifle
    ELSE IF Includes(weapon.name, Torrente) THEN LMG
    ELSE IF Includes(weapon.name, Osprey) THEN SniperRifle
    ELSE IF Includes(weapon.name, Stitcher) THEN SMG
    ELSE IF Includes(weapon.name, IlToro) THEN Shotgun
    ELSE RenamedSubcategory(weapon)

\* const baseName = weapon.name.replace(...).trim()
BaseNameOf(weapon) == Trim(StripLevelSuffix(weapon.name))

\* name.match(/(I|II|III|IV|V)$/i)?.[0] || 'I'
LevelOf(name) ==
    LET starts == {i \in 1..Len(name) : UpperCase(Suffix(name, i)) \in RomanNumerals}
    IN IF starts = {} THEN <<"I">> ELSE Suffix(name, Min(starts))

\* romanToNumber[level] || 1
RankOf(name) ==
    IF LevelOf(name) \in DOMAIN romanToNumber THEN romanToNumber[LevelOf(name)] ELSE 1

RECURSIVE SortVariants(_)
\* variants.sort((a, b) => rank(a) - rank(b)), a stable sort
SortVariants(variants) ==
    IF variants = <<>> THEN <<>>
    ELSE LET head == SortVariants(SubSeq(variants, 1, Len(variants) - 1))
             last == variants[Len(variants)]
             k == Cardinality({i \in 1..Len(head) : RankOf(head[i].name) <= RankOf(last.name)})
         IN SubSeq(head, 1, k) \o <<last>> \o SubSeq(head, k + 1, Len(head))

\* the keys of weaponGroups in insertion order
GroupNames(ws) ==
    LET first == {i \in 1..Len(ws) :
                     \A j \in 1..(i - 1) : BaseNameOf(ws[j]) # BaseNameOf(ws[i])}
        idx == SelectSeq([i \in 1..Len(ws) |-> i], LAMBDA i : i \in first)
    IN [k \in 1..Len(idx) |-> BaseNameOf(ws[idx[k]])]

\* weaponGroups[baseName]
VariantsOf(ws, baseName) == SelectSeq(ws, LAMBDA w : BaseNameOf(w) = baseName)

\* a stat that is present and not 0
Truthy(stats, key) == key \in DOMAIN stats /\ stats[key] # 0

\* stats[key] || otherwise
OrElse(stats, key, otherwise) == IF Truthy(stats, key) THEN stats[key] ELSE otherwise

\* the same with isReduction
calculateModifiedStatReduction(baseStat, modifier) ==
    IF baseStat = 0 \/ modifier = 0 THEN baseStat
    ELSE (baseStat * (100 - modifier)) \div 100

calculateModifiedStatIgnoresModifier(baseStat, modifier) == baseStat

\* function calculateModifiedStat(baseStat, modifier): the inputs of the
\* model keep baseStat * modifier a multiple of 100
calculateModifiedStat(baseStat, modifier) ==
    IF baseStat = 0 \/ modifier = 0 THEN baseStat
    ELSE (baseStat * (100 + modifier)) \div 100

\* baseWeapon.id.replace(/-i$/, '')
StripIdSuffix(id) ==
    IF Len(id) >= 2 /\ Suffix(id, Len(id) - 1) = <<"-", "i">>
    THEN SubSeq(id, 1, Len(id) - 2)
    ELSE id

\* variant.stat_block || {}, and baseWeapon.stat_block?.key
StatBlockOf(weapon) ==
    IF "stat_block" \in DOMAIN weapon THEN weapon.stat_block ELSE <<>>

\* the same with the default for every key
BaseStatsAllDefault(baseWeapon) == [key \in StatKeys |-> 0]

\* baseStats: baseWeapon.stat_block?.key || 0
BaseStatsOf(baseWeapon) ==
    [key \in StatKeys |-> OrElse(StatBlockOf(baseWeapon), key, 0)]

\* const modifiers = { key: stats.key || 0, ... }
ActiveModifiers(stats) == [key \in ModifierKeys |-> OrElse(stats, key, 0)]

\* the same without the test of the modifier
hasDirectFireRateOverrideAnyModifier(levelIndex, stats, baseFireRate, modifiers) ==
    IF ~(levelIndex > 0) THEN "false"
    ELSE IF "fireRate" \notin DOMAIN stats THEN "undefined"
    ELSE IF stats.fireRate = 0 THEN "0"
    ELSE IF ~(stats.fireRate # baseFireRate) THEN "false"
    ELSE "true"

\* levelIndex > 0 && stats.fireRate && stats.fireRate !== baseFireRate
\*     && !modifiers.increasedFireRate
hasDirectFireRateOverride(levelIndex, stats, baseFireRate, modifiers) ==
    IF ~(levelIndex > 0) THEN "false"
    ELSE IF "fireRate" \notin DOMAIN stats THEN "undefined"
    ELSE IF stats.fireRate = 0 THEN "0"
    ELSE IF ~(stats.fireRate # baseFireRate) THEN "false"
    ELSE IF modifiers.increasedFireRate = 0 THEN "true" ELSE "false"

\* the same without the comparison: the value of the last level that has one
CumulativeModifiersLatest(variants, levelIndex) ==
    LET having(key) == {i \in 1..(levelIndex + 1) : Truthy(StatBlockOf(variants[i]), key)}
        keys == {key \in ModifierKeys : having(key) # {}}
    IN [key \in keys |->
           StatBlockOf(variants[CHOOSE i \in having(key) : \A j \in having(key) : j <= i])[key]]

\* the same with the loop reduced to i = levelIndex: the level's own values
CumulativeModifiersOwn(variants, levelIndex) ==
    LET stats == StatBlockOf(variants[levelIndex + 1])
    IN [key \in {key \in ModifierKeys : Truthy(stats, key) /\ stats[key] > 0} |-> stats[key]]

\* the for loop over variants[0..levelIndex]: the largest value of each key
CumulativeModifiers(variants, levelIndex) ==
    LET seen(key) == {StatBlockOf(variants[i])[key] :
                         i \in {i \in 1..(levelIndex + 1) :
                                   /\ Truthy(StatBlockOf(variants[i]), key)
                                   /\ StatBlockOf(variants[i])[key] > 0}}
        keys == {key \in ModifierKeys : seen(key) # {}}
    IN [key \in keys |-> CHOOSE x \in seen(key) : \A y \in seen(key) : y <= x]

\* the value read from a record that has no such field
Undefined == <<"undefined">>

\* variant.id
IdOf(variant) == IF "id" \in DOMAIN variant THEN variant.id ELSE Undefined

\* the same counting from 0
LevelNumberFromZero(levelIndex) == levelIndex

LevelNumberConstant(levelIndex) == 1

\* levelNumber: levelIndex + 1
LevelNumberOf(levelIndex) == levelIndex + 1

\* the body of variants.forEach((variant, levelIndex) => ...)
LevelEntry(variants, levelIndex, baseStats) ==
    LET variant == variants[levelIndex + 1]
        stats == StatBlockOf(variant)
        modifiers == ActiveModifiers(stats)
        baseFireRate == baseStats.fireRate
        baseDPS == baseStats.damagePerSecond
        override == hasDirectFireRateOverride(levelIndex, stats, baseFireRate, modifiers)
        calculatedFireRate ==
            IF override = "true" THEN stats.fireRate
            ELSE calculateModifiedStat(baseFireRate, modifiers.increasedFireRate)
        calculatedDPS == calculateModifiedStat(baseDPS, modifiers.increasedFireRate)
    IN [level |-> LevelOf(variant.name),
        levelNumber |-> LevelNumberOf(levelIndex),
        id |-> IdOf(variant),
        value |-> variant.value,
        stats |-> [key \in StatKeys |->
                     IF key = "fireRate"
                     THEN (IF calculatedFireRate # 0 THEN calculatedFireRate
                           ELSE baseStats.fireRate)
                     ELSE IF key = "damagePerSecond"
                     THEN (IF calculatedDPS # 0 THEN calculatedDPS
                           ELSE baseStats.damagePerSecond)
                     ELSE OrElse(stats, key, baseStats[key])],
        modifiers |-> CumulativeModifiers(variants, levelIndex),
        activeModifiers |-> modifiers,
        hasDirectOverrides |-> [fireRate |-> override]]

\* the body of Object.entries(weaponGroups).forEach(([baseName, variants]) => ...)
WeaponGroupOf(baseName, unsorted) ==
    LET variants == SortVariants(unsorted)
        baseWeapon == variants[1]
        baseStats == BaseStatsOf(baseWeapon)
    IN [id |-> StripIdSuffix(baseWeapon.id),
        baseName |-> baseName,
        subcategory |-> normalizeSubcategory(baseWeapon),
        baseStats |-> baseStats,
        levels |-> [i \in 1..Len(variants) |-> LevelEntry(variants, i - 1, baseStats)]]

\* function processWeapons(weapons)
processWeapons(ws) ==
    LET names == GroupNames(ws)
    IN [g \in 1..Len(names) |-> WeaponGroupOf(names[g], VariantsOf(ws, names[g]))]

WeaponsIdle ==
    /\ wpc = "idle"
    /\ weapons = <<>>
    /\ processed = <<>>

\* fetchMapData not called
MapsIdle ==
    /\ mpc = "idle"
    /\ mapIdx = 1
    /\ allMaps = [name \in {} |-> <<>>]
    /\ mapFiles = [file \in {} |-> <<>>]
    /\ mapReqs = 0

\* what response and upstream hold before there is one
None == [none |-> TRUE]

\* no proxy handler deployed
ProxyIdle ==
    /\ deployed = "none"
    /\ ppc = "idle"
    /\ pevent = None
    /\ cacheFiles = [target \in {} |-> <<>>]
    /\ response = None
    /\ upstream = None

\* useState<string | null>(null)
Null == [null |-> TRUE]

\* no component rendered
ClientIdle ==
    /\ component = "none"
    /\ mounted = FALSE
    /\ active = <<>>
    /\ data = <<>>
    /\ loading = FALSE
    /\ error = Null
    /\ localStorage = [key \in {} |-> <<>>]
    /\ effects = <<>>
    /\ shown = None

SiteIdle == MapsIdle /\ ProxyIdle /\ ClientIdle

\* the state of main and of fetchAll before the loop, allItems apart
FetchIdle ==
    /\ pc = "main"
    /\ epIdx = 1
    /\ endpoint = ""
    /\ page = 1
    /\ all = <<>>
    /\ retval = <<>>
    /\ files = [ep \in {} |-> <<>>]
    /\ nReq = 0
    /\ fetched = <<>>
    /\ lastStatus = "none"
    /\ n429 = 0

\* let allItems = []
FetchInit == FetchIdle /\ allItems = <<>>

Init == FetchInit /\ WeaponsIdle /\ SiteIdle

Next ==
    \/ CallFetchAll
    \/ FetchRateLimited
    \/ FetchError
    \/ FetchOk
    \/ Wake
    \/ Return

Spec == Init /\ [][Next]_vars

\* the event loop runs every continuation that is ready
FairSpec == Spec /\ WF_vars(Next)

(***************************************************************************)
(* The weapon records processWeapons is applied to                         *)
(***************************************************************************)
\* at most this many weapon records in one call
MaxWeapons == 3

Viper == <<"V", "i", "p", "e", "r">>

\* names of one family and of another: with a numeral, without one, with
\* a lower-case numeral, with a numeral that is none of the five, and with
\* a space at the end
WeaponNames ==
    {Viper \o suffix : suffix \in
        {<<>>, <<" ", "I">>, <<" ", "I", "I">>, <<" ", "I", "I", "I">>,
         <<" ", "I", "V">>, <<" ", "i", "i", "i">>,
         <<" ", "V", "I">>, <<" ">>}}
    \cup {Ferro \o <<" ", "I">>}

LowerChar(c) ==
    IF c = "V" THEN "v" ELSE IF c = "F" THEN "f" ELSE IF c = "I" THEN "i"
    ELSE IF c = " " THEN "-" ELSE c

\* the id the upstream gives a record: its name in lower case with dashes
Slug(name) == [k \in 1..Len(name) |-> LowerChar(name[k])]

Numerals == <<<<"I">>, <<"I", "I">>, <<"I", "I", "I">>, <<"I", "V">>, <<"V">>>>

\* value tells the records of one input apart: it is the record's position
Weapon(name, position, stats) ==
    [id |-> Slug(name), name |-> name, item_type |-> "Weapon",
     value |-> position, stat_block |-> stats]

\* functions from a subset of keys to the values given
StatBlocks(keys, values) == UNION {[d -> values] : d \in SUBSET keys}

\* n records that differ in their names
NameInputs(n) ==
    {[i \in 1..n |-> Weapon(names[i], i, [fireRate |-> 100])] :
        names \in [1..n -> WeaponNames]}

\* the upgrade chain Viper I, Viper II, ... with differing fire-rate stats
FireRateBlocks ==
    {f @@ m : f \in StatBlocks({"fireRate"}, {0, 100, 150}),
              m \in StatBlocks({"increasedFireRate"}, {20})}

FireRateInputs(n) ==
    {[i \in 1..n |-> Weapon(Viper \o <<" ">> \o Numerals[i], i, blocks[i])] :
        blocks \in [1..n -> FireRateBlocks]}

\* an upgrade chain Viper I, Viper II, ... of n records: the stats of the
\* first from one set, those of the others from another
ChainInputs(n, First, Rest) ==
    {[i \in 1..n |-> Weapon(Viper \o <<" ">> \o Numerals[i], i, blocks[i])] :
        blocks \in {b \in [1..n -> First \cup Rest] :
                       /\ n > 0 => b[1] \in First
                       /\ \A i \in 2..n : b[i] \in Rest}}

\* damagePerSecond with and without a modifier and a fire rate of its own
DpsFirst ==
    {[fireRate |-> 100], [fireRate |-> 100, damagePerSecond |-> 200],
     [fireRate |-> 100, damagePerSecond |-> 200, increasedFireRate |-> 50]}

DpsRest ==
    {d @@ m @@ f : d \in StatBlocks({"damagePerSecond"}, {250}),
                   m \in StatBlocks({"increasedFireRate"}, {50}),
                   f \in StatBlocks({"fireRate"}, {150})}

\* damage and stealth given, given as 0, and left out
CoreFirst == {[stealth |-> 5], [damage |-> 40, stealth |-> 5]}

CoreRest ==
    {d @@ t : d \in StatBlocks({"damage"}, {0, 50}),
              t \in StatBlocks({"stealth"}, {0, 7})}

\* two modifiers: given, given as 0, and left out
ModifierBlocks ==
    {f @@ r : f \in StatBlocks({"increasedFireRate"}, {10, 20}),
              r \in StatBlocks({"reducedReloadTime"}, {15})}
        \cup {[increasedFireRate |-> 0]}

AssaultRifle == <<"A", "s", "s", "a", "u", "l", "t", " ", "R", "i", "f", "l", "e">>

\* subcategory left out, empty, one no rule renames, and the two renamed
Declarations ==
    {[key \in {} |-> <<>>]}
        \cup {[subcategory |-> declared] :
                 declared \in {<<>>, AssaultRifle, <<" ">> \o HandCannon \o <<" ">>,
                               BattleRifle, SMG}}

\* names with each of the substrings, with two of them, and with none
SubcategoryNames ==
    {Ferro, Renegade, Torrente, Osprey, Stitcher, IlToro, Viper,
     Torrente \o <<" ">> \o Ferro, Stitcher \o <<" ">> \o Osprey}

\* one record, and the levels I and II of one weapon in either order, each
\* record with a declaration of its own
SubcategoryInputs ==
    {<<Weapon(name \o <<" ">> \o Numerals[1], 1, [fireRate |-> 100]) @@ declaration>> :
        name \in SubcategoryNames, declaration \in Declarations}
    \cup {[i \in 1..2 |->
              Weapon(name \o <<" ">> \o Numerals[order[i]], i, [fireRate |-> 100])
                  @@ declarations[i]] :
              name \in {Torrente, Viper}, order \in {<<1, 2>>, <<2, 1>>},
              declarations \in [1..2 -> Declarations]}

\* a record without one of its fields
Without(record, key) == [k \in DOMAIN record \ {key} |-> record[k]]

\* the record at a position of the items collection: a weapon with all its
\* fields, a weapon without stat_block, without name, without id, a record
\* of another item_type and a record without item_type
RecordKinds == {"weapon", "noStatBlock", "noName", "noId", "armor", "noItemType"}

ItemOfKind(kind, position) ==
    LET weapon == Weapon(Viper \o <<" ">> \o Numerals[position], position,
                         [fireRate |-> 100, damage |-> 40])
    IN CASE kind = "weapon" -> weapon
         [] kind = "noStatBlock" -> Without(weapon, "stat_block")
         [] kind = "noName" -> Without(weapon, "name")
         [] kind = "noId" -> Without(weapon, "id")
         [] kind = "armor" -> [weapon EXCEPT !.item_type = "Armor"]
         [] kind = "noItemType" -> Without(weapon, "item_type")

\* items collections of one and of two records of these kinds
MixedInputs ==
    UNION {{[i \in 1..n |-> ItemOfKind(kinds[i], i)] : kinds \in [1..n -> RecordKinds]} :
              n \in 1..2}

\* the items collections of at most max records
ItemsUpTo(max) ==
    \E n \in 0..max :
        \/ allItems \in NameInputs(n)
        \/ allItems \in FireRateInputs(n)
        \/ n > 0 /\ allItems \in ChainInputs(n, DpsFirst, DpsRest)
        \/ n > 0 /\ allItems \in ChainInputs(n, CoreFirst, CoreRest)
        \/ n > 0 /\ allItems \in ChainInputs(n, ModifierBlocks, ModifierBlocks)
        \/ n = 2 /\ allItems \in SubcategoryInputs
        \/ n = 2 /\ allItems \in MixedInputs

\* main after the loop over ENDPOINTS: allItems is the items collection
InitWeapons ==
    /\ FetchIdle
    /\ SiteIdle
    /\ wpc = "input"
    /\ ItemsUpTo(MaxWeapons)
    /\ weapons = <<>>
    /\ processed = <<>>

\* the same without the test
WeaponsFilterKeepsAll(items) == items

\* const weapons = allItems.filter((item) => item.item_type === 'Weapon')
WeaponsFilter(items) ==
    SelectSeq(items, LAMBDA item :
                  "item_type" \in DOMAIN item /\ item.item_type = "Weapon")

\* the calls that raise a TypeError: weapon.name.replace of a record without
\* name (line 69), baseWeapon.id.replace of a group whose first variant has
\* no id (line 95)
Throws(ws) ==
    IF \E i \in 1..Len(ws) : "name" \notin DOMAIN ws[i] THEN TRUE
    ELSE \E g \in 1..Len(GroupNames(ws)) :
             "id" \notin DOMAIN SortVariants(VariantsOf(ws, GroupNames(ws)[g]))[1]

\* const weapons = allItems.filter(...)
\* const processedWeapons = processWeapons(weapons)
Process ==
    /\ wpc = "input"
    /\ weapons' = WeaponsFilter(allItems)
    /\ IF Throws(weapons')
       THEN wpc' = "threw" /\ processed' = processed
       ELSE wpc' = "done" /\ processed' = processWeapons(weapons')
    /\ UNCHANGED <<pc, epIdx, endpoint, page, all, retval, allItems, files,
                   nReq, fetched, lastStatus, n429, siteVars>>

NextWeapons == Process

SpecWeapons == InitWeapons /\ [][NextWeapons]_vars

(***************************************************************************)
(* The script run a second time on the same items collection               *)
(***************************************************************************)
\* at most this many records in a collection processed twice
MaxRerun == 2

InitRerun ==
    /\ FetchIdle
    /\ SiteIdle
    /\ wpc = "input"
    /\ ItemsUpTo(MaxRerun)
    /\ weapons = <<>>
    /\ processed = <<>>

\* the same taking the weapon records out of allItems
ReprocessDrainsInput ==
    /\ wpc \in {"done", "threw"}
    /\ weapons' = WeaponsFilter(allItems)
    /\ allItems' = SelectSeq(allItems, LAMBDA item : item \notin {weapons'[i] : i \in 1..Len(weapons')})
    /\ IF Throws(weapons')
       THEN wpc' = "threwAgain" /\ processed' = <<>>
       ELSE wpc' = "doneAgain" /\ processed' = processWeapons(WeaponsFilter(allItems'))
    /\ UNCHANGED <<pc, epIdx, endpoint, page, all, retval, files,
                   nReq, fetched, lastStatus, n429, siteVars>>

\* the second run: the weapons filter and processWeapons, with nothing kept
\* from the first run but allItems
Reprocess ==
    /\ wpc \in {"done", "threw"}
    /\ weapons' = WeaponsFilter(allItems)
    /\ IF Throws(weapons')
       THEN wpc' = "threwAgain" /\ processed' = <<>>
       ELSE wpc' = "doneAgain" /\ processed' = processWeapons(weapons')
    /\ UNCHANGED <<pc, epIdx, endpoint, page, all, retval, allItems, files,
                   nReq, fetched, lastStatus, n429, siteVars>>

NextRerun ==
    \/ Process
    \/ Reprocess

SpecRerun == InitRerun /\ [][NextRerun]_vars

(***************************************************************************)
(* fetchMapData                                                            *)
(***************************************************************************)
MAPS == <<"Dam", "Spaceport", "Buried City", "Blue Gate">>

\* a parsed response body of the map endpoint: a bare array of markers, an
\* object with a data array, an object without one, or null
MapBodyShapes == {"array", "wrapped", "object", "null"}

MapBody(shape, mapName) == [shape |-> shape, data |-> <<[mapID |-> mapName]>>]

\* Array.isArray(data) ? data : data?.data || data
ExtractMapData(body) ==
    IF body.shape \in {"array", "wrapped"} THEN body.data ELSE body

\* `Got ${allMaps[mapName].length || 0} locations`: reading length of null
LogThrows(body) == body.shape = "null"

\* allMaps[mapName] = value
AssignMap(maps, mapName, value) ==
    [name \in DOMAIN maps \cup {mapName} |-> IF name = mapName THEN value ELSE maps[name]]

\* the two writeFileSync calls after the for-loop
WriteMapFiles(maps) ==
    [pretty |-> JSONstringify(maps, 2), min |-> JSONstringify(maps, 0)]

\* the end of one iteration of the for-loop: the next map, or the writes
NextMap(maps) ==
    /\ mapReqs' = 0
    /\ IF mapIdx = Len(MAPS)
       THEN /\ mpc' = "done"
            /\ mapFiles' = WriteMapFiles(maps)
            /\ mapIdx' = mapIdx
       ELSE /\ mpc' = "fetch"
            /\ mapIdx' = mapIdx + 1
            /\ mapFiles' = mapFiles

\* await fetchMapData(): const allMaps = {}
CallFetchMapData ==
    /\ mpc = "main"
    /\ mpc' = "fetch"
    /\ mapIdx' = 1
    /\ allMaps' = [name \in {} |-> <<>>]
    /\ mapReqs' = 0
    /\ UNCHANGED <<mapFiles, fetchVars, weaponVars, proxyVars, clientVars>>

\* res.status === 429 on the first request: sleep 10 s
MapRateLimited ==
    /\ mpc = "fetch"
    /\ mpc' = "sleep10000"
    /\ mapReqs' = mapReqs + 1
    /\ UNCHANGED <<mapIdx, allMaps, mapFiles, fetchVars, weaponVars, proxyVars, clientVars>>

\* res.ok (or retryRes.ok) with a parsed body
MapOk ==
    /\ mpc \in {"fetch", "retry"}
    /\ \E shape \in MapBodyShapes :
         LET body == MapBody(shape, MAPS[mapIdx])
         IN IF LogThrows(body)
            THEN /\ allMaps' = AssignMap(allMaps, MAPS[mapIdx], <<>>)
                 /\ NextMap(allMaps')
            ELSE /\ allMaps' = AssignMap(allMaps, MAPS[mapIdx], ExtractMapData(body))
                 /\ mpc' = "sleep1500"
                 /\ mapReqs' = mapReqs + 1
                 /\ UNCHANGED <<mapIdx, mapFiles>>
    /\ UNCHANGED <<fetchVars, weaponVars, proxyVars, clientVars>>

\* the retry answered with a status that is not ok: nothing is assigned
MapRetryNotOk ==
    /\ mpc = "retry"
    /\ mpc' = "sleep1500"
    /\ mapReqs' = mapReqs + 1
    /\ UNCHANGED <<mapIdx, allMaps, mapFiles, fetchVars, weaponVars, proxyVars, clientVars>>

\* the first request answered with a status that is neither 429 nor ok
MapNotOk ==
    /\ mpc = "fetch"
    /\ allMaps' = AssignMap(allMaps, MAPS[mapIdx], <<>>)
    /\ mpc' = "sleep1500"
    /\ mapReqs' = mapReqs + 1
    /\ UNCHANGED <<mapIdx, mapFiles, fetchVars, weaponVars, proxyVars, clientVars>>

\* catch: fetch rejects or res.json() throws, on either request
MapError ==
    /\ mpc \in {"fetch", "retry"}
    /\ allMaps' = AssignMap(allMaps, MAPS[mapIdx], <<>>)
    /\ NextMap(allMaps')
    /\ UNCHANGED <<fetchVars, weaponVars, proxyVars, clientVars>>

\* a sleep of fetchMapData elapses
MapWake ==
    /\ mpc \in {"sleep10000", "sleep1500"}
    /\ IF mpc = "sleep10000"
       THEN mpc' = "retry" /\ UNCHANGED <<mapIdx, mapFiles, mapReqs>>
       ELSE NextMap(allMaps)
    /\ UNCHANGED <<allMaps, fetchVars, weaponVars, proxyVars, clientVars>>

\* main has reached the call of fetchMapData
InitMaps ==
    /\ FetchIdle
    /\ allItems = <<>>
    /\ WeaponsIdle
    /\ mpc = "main"
    /\ mapIdx = 1
    /\ allMaps = [name \in {} |-> <<>>]
    /\ mapFiles = [file \in {} |-> <<>>]
    /\ mapReqs = 0
    /\ ProxyIdle
    /\ ClientIdle

NextMaps ==
    \/ CallFetchMapData
    \/ MapRateLimited
    \/ MapOk
    \/ MapRetryNotOk
    \/ MapNotOk
    \/ MapError
    \/ MapWake

SpecMaps == InitMaps /\ [][NextMaps]_vars

(***************************************************************************)
(* The proxy function: netlify/functions/proxy.js and its caching version  *)
(***************************************************************************)
Prefix == <<"/", ".", "n", "e", "t", "l", "i", "f", "y", "/", "f", "u", "n", "c", "t", "i", "o", "n", "s", "/", "p", "r", "o", "x", "y">>

Origin == <<"h", "t", "t", "p", "s", ":", "/", "/", "m", "e", "t", "a", "f", "o", "r", "g", "e", ".", "a", "p", "p">>

ApplicationJson == <<"a", "p", "p", "l", "i", "c", "a", "t", "i", "o", "n", "/", "j", "s", "o", "n">>

TextHtml == <<"t", "e", "x", "t", "/", "h", "t", "m", "l">>

TextHtmlUtf8 == <<"t", "e", "x", "t", "/", "h", "t", "m", "l", ";", " ", "c", "h", "a", "r", "s", "e", "t", "=", "u", "t", "f", "-", "8">>

Doctype == <<"<", "!", "D", "O", "C", "T", "Y", "P", "E">>

\* str.startsWith(prefix)
StartsWith(str, prefix) ==
    Len(str) >= Len(prefix) /\ SubSeq(str, 1, Len(prefix)) = prefix

\* str.replace(sub, ""): the first occurrence is removed
RemoveFirst(str, sub) ==
    IF ~Includes(str, sub) THEN str
    ELSE LET i == Min({k \in 1..(Len(str) - Len(sub) + 1) :
                          SubSeq(str, k, k + Len(sub) - 1) = sub})
         IN SubSeq(str, 1, i - 1) \o SubSeq(str, i + Len(sub), Len(str))

\* const target = `https://metaforge.app${pathAfter}${qs}`
TargetOf(event) ==
    LET stripped == RemoveFirst(event.path, Prefix)
        pathAfter == IF StartsWith(stripped, <<"/">>) THEN stripped ELSE <<"/">> \o stripped
        qs == IF event.rawQueryString # <<>> THEN <<"?">> \o event.rawQueryString ELSE <<>>
    IN Origin \o pathAfter \o qs

\* the events dispatched to the handler: the function's own path, a path
\* below it with a query string, and an event without path
ProxyEvents ==
    {[path |-> Prefix, rawQueryString |-> <<>>],
     [path |-> Prefix \o <<"/", "i", "t", "e", "m", "s">>, rawQueryString |-> <<"p", "a", "g", "e", "=", "2">>],
     [rawQueryString |-> <<>>]}

\* event.path.replace of an event without path is a TypeError
EventThrows(event) == "path" \notin DOMAIN event

\* the bodies the upstream may send
UpstreamBodies ==
    {<<"{", "}">>, <<" ", "[", "]">>, Doctype \o <<" ", "h", "t", "m", "l", ">">>,
     <<"<", "h", "t", "m", "l", ">">>, <<"N", "o", "t", " ", "F", "o", "u", "n", "d">>}

\* the content-type header of the upstream response, or none
UpstreamContentTypes == {None, ApplicationJson, TextHtmlUtf8}

UpstreamStatuses == {200, 404, 500}

\* upstream.ok
IsOk(status) == status >= 200 /\ status <= 299

\* upstream.headers.get("content-type") || "application/json"
ContentTypeOf(header) == IF header = None THEN ApplicationJson ELSE header

\* contentType.includes("text/html"), proxy.js
IsHtmlByType(contentType, bodyText) == Includes(contentType, TextHtml)

\* contentType.includes("text/html") || bodyText.startsWith("<!DOCTYPE")
IsHtml(contentType, bodyText) ==
    Includes(contentType, TextHtml) \/ StartsWith(bodyText, Doctype)

CacheableAnyStatus(status, bodyText) ==
    StartsWith(Trim(bodyText), <<"{">>) \/ StartsWith(Trim(bodyText), <<"[">>)

\* upstream.ok && (bodyText.trim().startsWith("{") || bodyText.trim().startsWith("["))
Cacheable(status, bodyText) ==
    /\ IsOk(status)
    /\ (StartsWith(Trim(bodyText), <<"{">>) \/ StartsWith(Trim(bodyText), <<"[">>))

CorsHeader == "Access-Control-Allow-Origin"

\* the headers of the 502 and of the 500 response
ErrorHeaders == (CorsHeader :> "*") @@ ("Content-Type" :> ApplicationJson)

CacheControl == "public, s-maxage=604800, max-age=604800, stale-while-revalidate=86400"

\* the return of the cache hit
HitResponse(cached) ==
    [statusCode |-> 200,
     headers |-> ErrorHeaders @@ ("Cache-Control" :> CacheControl) @@ ("X-Cache" :> "HIT"),
     body |-> cached]

\* the return of the HTML rejection
HtmlResponse(bodyText, target) ==
    [statusCode |-> 502,
     headers |-> ErrorHeaders,
     body |-> [error |-> "Upstream returned HTML instead of JSON",
               preview |-> SubSeq(bodyText, 1, IF Len(bodyText) < 200 THEN Len(bodyText) ELSE 200),
               target |-> target]]

\* the pass-through return of proxy.js
PassResponse(status, contentType, bodyText) ==
    [statusCode |-> status,
     headers |-> (CorsHeader :> "*") @@ ("Content-Type" :> contentType),
     body |-> bodyText]

\* the pass-through return of the caching handler
MissResponse(status, contentType, bodyText) ==
    [statusCode |-> status,
     headers |-> (CorsHeader :> "*") @@ ("Content-Type" :> contentType)
                     @@ ("Cache-Control" :> CacheControl) @@ ("X-Cache" :> "MISS"),
     body |-> bodyText]

CatchResponseWithoutCors(message) ==
    [statusCode |-> 500,
     headers |-> ("Content-Type" :> ApplicationJson),
     body |-> [error |-> "Proxy error", message |-> message]]

\* the return of the catch block
CatchResponse(message) ==
    [statusCode |-> 500,
     headers |-> ErrorHeaders,
     body |-> [error |-> "Proxy error", message |-> message]]

\* fs.existsSync(cachePath) and age < MAX_CACHE_AGE_MS
CacheIsFresh(target) == target \in DOMAIN cacheFiles /\ cacheFiles[target].young

\* fs.writeFileSync(cachePath, bodyText): the file is new, and status
\* remembers the upstream response it was taken from
WriteCacheFile(target, status, bodyText) ==
    [t \in DOMAIN cacheFiles \cup {target} |->
        IF t = target THEN [body |-> bodyText, young |-> TRUE, status |-> status]
        ELSE cacheFiles[t]]

\* the platform dispatches an event to the handler
ReceiveEvent ==
    /\ ppc = "idle"
    /\ \E event \in ProxyEvents : pevent' = event
    /\ ppc' = "handling"
    /\ response' = None
    /\ upstream' = None
    /\ UNCHANGED <<deployed, cacheFiles, fetchVars, weaponVars, mapVars, clientVars>>

\* handler, up to its first await: the target, the cache lookup of the
\* caching version, and the call of fetch
HandlerStart ==
    /\ ppc = "handling"
    /\ IF EventThrows(pevent)
       THEN /\ response' = CatchResponse("TypeError")
            /\ ppc' = "idle"
       ELSE IF deployed = "part_003" /\ CacheIsFresh(TargetOf(pevent))
       THEN /\ response' = HitResponse(cacheFiles[TargetOf(pevent)].body)
            /\ ppc' = "idle"
       ELSE /\ ppc' = "awaiting"
            /\ response' = response
    /\ UNCHANGED <<deployed, pevent, cacheFiles, upstream, fetchVars, weaponVars, mapVars, clientVars>>

\* handler, after the upstream has answered
HandlerResume ==
    /\ ppc = "awaiting"
    /\ \E status \in UpstreamStatuses, header \in UpstreamContentTypes, bodyText \in UpstreamBodies :
         LET contentType == ContentTypeOf(header)
             target == TargetOf(pevent)
         IN /\ upstream' = [status |-> status, header |-> header, body |-> bodyText]
            /\ IF deployed = "proxy.js"
               THEN /\ response' = IF IsHtmlByType(contentType, bodyText)
                                   THEN HtmlResponse(bodyText, target)
                                   ELSE PassResponse(status, contentType, bodyText)
                    /\ cacheFiles' = cacheFiles
               ELSE IF IsHtml(contentType, bodyText)
               THEN /\ response' = HtmlResponse(bodyText, target)
                    /\ cacheFiles' = cacheFiles
               ELSE /\ response' = MissResponse(status, contentType, bodyText)
                    /\ cacheFiles' = IF Cacheable(status, bodyText)
                                     THEN WriteCacheFile(target, status, bodyText)
                                     ELSE cacheFiles
    /\ ppc' = "idle"
    /\ UNCHANGED <<deployed, pevent, fetchVars, weaponVars, mapVars, clientVars>>

\* handler, when fetch or upstream.text() rejects: the catch block
HandlerCatch ==
    /\ ppc = "awaiting"
    /\ response' = CatchResponse("fetch failed")
    /\ ppc' = "idle"
    /\ UNCHANGED <<deployed, pevent, cacheFiles, upstream, fetchVars, weaponVars, mapVars, clientVars>>

\* time passes: a cache file reaches the age of MAX_CACHE_AGE_MS
CacheFileAges ==
    /\ \E target \in DOMAIN cacheFiles :
         /\ cacheFiles[target].young
         /\ cacheFiles' = [cacheFiles EXCEPT ![target].young = FALSE]
    /\ UNCHANGED <<deployed, ppc, pevent, response, upstream, fetchVars, weaponVars, mapVars, clientVars>>

\* one of the two handlers is deployed, with an empty CACHE_DIR
InitProxy ==
    /\ FetchIdle
    /\ allItems = <<>>
    /\ WeaponsIdle
    /\ MapsIdle
    /\ deployed \in {"proxy.js", "part_003"}
    /\ ppc = "idle"
    /\ pevent = None
    /\ cacheFiles = [target \in {} |-> <<>>]
    /\ response = None
    /\ upstream = None
    /\ ClientIdle

NextProxy ==
    \/ ReceiveEvent
    \/ HandlerStart
    \/ HandlerResume
    \/ HandlerCatch
    \/ CacheFileAges

SpecProxy == InitProxy /\ [][NextProxy]_vars

(***************************************************************************)
(* The load effect of the explorer components                              *)
(***************************************************************************)
\* at most this many instances of the load effect run in one execution
MaxEffects == 3

Components == {"ArcExplorer", "WeaponExplorer", "ItemExplorer", "MapExplorer"}

\* endpoints, as the segments of their paths
ItemsJson == <<"data", "items.json">>

ArcsJson == <<"data", "arcs.json">>

MapsApi == <<"api", "game-map-data">>

WeaponsJson == <<"data", "weapons.json">>

ItemsMinJson == <<"data", "items.min.json">>

MapDataDam == <<"api", "game-map-data?tableID=arc-raiders&mapID=Dam">>

MapDataSpaceport == <<"api", "game-map-data?tableID=arc-raiders&mapID=Spaceport">>

\* the values endpoint takes in a component
EndpointsOf(c) ==
    IF c = "ArcExplorer" THEN {ItemsJson, ArcsJson, MapsApi}
    ELSE IF c = "WeaponExplorer" THEN {WeaponsJson}
    ELSE IF c = "ItemExplorer" THEN {ItemsMinJson}
    ELSE {MapDataDam, MapDataSpaceport}

\* the endpoint of the first render
InitialEndpoint(c) ==
    IF c = "ArcExplorer" THEN ItemsJson
    ELSE IF c = "WeaponExplorer" THEN WeaponsJson
    ELSE IF c = "ItemExplorer" THEN ItemsMinJson
    ELSE MapDataDam

\* endpoint.includes('/api/')
IncludesApi(e) == \E i \in 1..(Len(e) - 1) : e[i] = "api"

\* whether loadData of the component goes through localStorage for e
UsesCache(c, e) ==
    \/ c \in {"WeaponExplorer", "ItemExplorer"}
    \/ (c = "ArcExplorer" /\ ~IncludesApi(e))

CACHE_NAME == "metaforge-cache-v1"

\* `${CACHE_NAME}-${endpoint}`
CacheKey(e) == [name |-> CACHE_NAME, endpoint |-> e]

\* the age of a cache entry: at most 1 day ("fresh"), more than 1 day and
\* less than 7 ("stale"), 7 days or more ("expired")
NextAge(age) == IF age = "fresh" THEN "stale" ELSE "expired"

\* JSON.stringify({ data: json, timestamp: Date.now() })
Entry(json, age) == [data |-> json, age |-> age]

\* a stored string JSON.parse rejects
Garbage == [garbage |-> TRUE]

\* the body of the response for an endpoint, and the one an earlier visit
\* had received and cached
ResponseFor(e) == [endpoint |-> e, version |-> 1]

EarlierResponseFor(e) == [endpoint |-> e, version |-> 0]

\* e.message || 'Failed to load data'
Message == [message |-> "Failed to load data"]

\* the cleanup of the latest effect instance: ignore = true
Cleanup(instances) ==
    [i \in 1..Len(instances) |->
        IF i = Len(instances) THEN [instances[i] EXCEPT !.ignore = TRUE] ELSE instances[i]]

\* localStorage.setItem(cacheKey, ...)
SetItem(storage, key, value) ==
    [k \in DOMAIN storage \cup {key} |-> IF k = key THEN value ELSE storage[k]]

\* localStorage.removeItem(cacheKey)
RemoveItem(storage, key) == [k \in DOMAIN storage \ {key} |-> storage[k]]

CacheHitNever(c, e) == FALSE

\* cached is parsed and age < CACHE_DURATION
CacheHit(c, e) ==
    /\ UsesCache(c, e)
    /\ CacheKey(e) \in DOMAIN localStorage
    /\ localStorage[CacheKey(e)] # Garbage
    /\ localStorage[CacheKey(e)].age # "expired"

\* the effect runs for endpoint e: let ignore = false; loadData() up to its
\* first await, after the cleanup of the instance before it
RunEffect(e) ==
    LET key == CacheKey(e)
        idx == Len(effects) + 1
    IN /\ error' = Null
       /\ IF CacheHit(component, e)
          THEN /\ data' = localStorage[key].data
               /\ loading' = FALSE
               /\ shown' = [by |-> idx, via |-> "cache"]
               /\ localStorage' = localStorage
               /\ effects' = Append(Cleanup(effects),
                                [endpoint |-> e, ignore |-> FALSE, fg |-> "none",
                                 bg |-> IF localStorage[key].age = "stale"
                                        THEN "pending" ELSE "none"])
          ELSE /\ data' = data
               /\ loading' = TRUE
               /\ shown' = shown
               /\ localStorage' =
                     IF /\ UsesCache(component, e)
                        /\ key \in DOMAIN localStorage
                        /\ localStorage[key] = Garbage
                     THEN RemoveItem(localStorage, key)
                     ELSE localStorage
               /\ effects' = Append(Cleanup(effects),
                                [endpoint |-> e, ignore |-> FALSE, fg |-> "pending",
                                 bg |-> "none"])

\* the component is mounted and its effect runs for the first time
Mount ==
    /\ component # "none"
    /\ ~mounted
    /\ effects = <<>>
    /\ mounted' = TRUE
    /\ RunEffect(active)
    /\ UNCHANGED <<component, active, fetchVars, weaponVars, mapVars, proxyVars>>

\* the user selects another tab or map: endpoint changes, the running
\* instance is cleaned up and the effect runs again
SelectEndpoint ==
    /\ mounted
    /\ Len(effects) < MaxEffects
    /\ \E e \in EndpointsOf(component) \ {active} :
         /\ active' = e
         /\ RunEffect(e)
    /\ UNCHANGED <<component, mounted, fetchVars, weaponVars, mapVars, proxyVars>>

\* the component is unmounted: the cleanup of the running instance
Unmount ==
    /\ mounted
    /\ mounted' = FALSE
    /\ effects' = Cleanup(effects)
    /\ UNCHANGED <<component, active, data, loading, error, localStorage, shown,
                   fetchVars, weaponVars, mapVars, proxyVars>>

\* the foreground request of an instance is answered ok with a JSON body:
\* the rest of fetchAndCache(cacheKey, false) and of loadData; localStorage
\* takes the entry, or rejects it on both attempts
FgSucceeds ==
    \E i \in 1..Len(effects) :
        /\ effects[i].fg = "pending"
        /\ effects' = [effects EXCEPT ![i].fg = "ok"]
        /\ LET e == effects[i].endpoint
           IN IF effects[i].ignore
              THEN UNCHANGED <<data, loading, error, localStorage, shown>>
              ELSE /\ \E accepted \in BOOLEAN :
                         localStorage' =
                             IF UsesCache(component, e) /\ accepted
                             THEN SetItem(localStorage, CacheKey(e),
                                          Entry(ResponseFor(e), "fresh"))
                             ELSE localStorage
                   /\ data' = ResponseFor(e)
                   /\ shown' = [by |-> i, via |-> "response"]
                   /\ loading' = FALSE
                   /\ error' = error
        /\ UNCHANGED <<component, mounted, active, fetchVars, weaponVars, mapVars, proxyVars>>

\* the foreground request of an instance rejects, is answered with a status
\* that is not ok, or its body is not JSON: the catch and finally of loadData
FgFails ==
    \E i \in 1..Len(effects) :
        /\ effects[i].fg = "pending"
        /\ effects' = [effects EXCEPT ![i].fg = "failed"]
        /\ IF effects[i].ignore
           THEN UNCHANGED <<data, loading, error, shown>>
           ELSE /\ error' = Message
                /\ loading' = FALSE
                /\ IF component = "MapExplorer"
                   THEN data' = <<>> /\ shown' = [by |-> i, via |-> "reset"]
                   ELSE UNCHANGED <<data, shown>>
        /\ UNCHANGED <<component, mounted, active, localStorage,
                       fetchVars, weaponVars, mapVars, proxyVars>>

\* the background request of an instance is answered ok with a JSON body:
\* fetchAndCache(cacheKey, true)
BgSucceeds ==
    \E i \in 1..Len(effects) :
        /\ effects[i].bg = "pending"
        /\ effects' = [effects EXCEPT ![i].bg = "ok"]
        /\ \E accepted \in BOOLEAN :
             localStorage' =
                 IF accepted
                 THEN SetItem(localStorage, CacheKey(effects[i].endpoint),
                              Entry(ResponseFor(effects[i].endpoint), "fresh"))
                 ELSE localStorage
        /\ UNCHANGED <<component, mounted, active, data, loading, error, shown,
                       fetchVars, weaponVars, mapVars, proxyVars>>

BgFailsSetsError ==
    \E i \in 1..Len(effects) :
        /\ effects[i].bg = "pending"
        /\ effects' = [effects EXCEPT ![i].bg = "failed"]
        /\ error' = Message
        /\ UNCHANGED <<component, mounted, active, data, loading, localStorage, shown,
                       fetchVars, weaponVars, mapVars, proxyVars>>

\* the background request of an instance fails: the error is swallowed
BgFails ==
    \E i \in 1..Len(effects) :
        /\ effects[i].bg = "pending"
        /\ effects' = [effects EXCEPT ![i].bg = "failed"]
        /\ UNCHANGED <<component, mounted, active, data, loading, error, localStorage,
                       shown, fetchVars, weaponVars, mapVars, proxyVars>>

\* time passes: a cache entry gets older than 1 day, or reaches 7 days
EntryAges ==
    /\ \E key \in DOMAIN localStorage :
         /\ localStorage[key] # Garbage
         /\ localStorage[key].age # "expired"
         /\ localStorage' = [localStorage EXCEPT ![key].age = NextAge(localStorage[key].age)]
    /\ UNCHANGED <<component, mounted, active, data, loading, error, effects, shown,
                   fetchVars, weaponVars, mapVars, proxyVars>>

\* what localStorage may hold for an endpoint when the page is opened
StoredFor(e) ==
    {Garbage} \cup {Entry(EarlierResponseFor(e), age) : age \in {"fresh", "stale", "expired"}}

\* a component about to be mounted, over what earlier visits left in
\* localStorage for its static endpoints
InitClient ==
    /\ FetchIdle
    /\ allItems = <<>>
    /\ WeaponsIdle
    /\ MapsIdle
    /\ ProxyIdle
    /\ component \in Components
    /\ mounted = FALSE
    /\ active = InitialEndpoint(component)
    /\ data = <<>>
    /\ loading = FALSE
    /\ error = Null
    /\ \E keys \in SUBSET {e \in EndpointsOf(component) : UsesCache(component, e)} :
         localStorage \in {f \in [{CacheKey(e) : e \in keys} ->
                                     UNION {StoredFor(e) : e \in keys}] :
                              \A e \in keys : f[CacheKey(e)] \in StoredFor(e)}
    /\ effects = <<>>
    /\ shown = None

\* a request that is in flight settles
Settle ==
    \/ FgSucceeds
    \/ FgFails
    \/ BgSucceeds
    \/ BgFails

NextClient ==
    \/ Mount
    \/ SelectEndpoint
    \/ Unmount
    \/ FgSucceeds
    \/ FgFails
    \/ BgSucceeds
    \/ BgFails
    \/ EntryAges

SpecClient == InitClient /\ [][NextClient]_vars

\* every request the browser has issued is eventually answered or fails
FairSpecClient == SpecClient /\ WF_vars(Settle)

(***************************************************************************)
(* Properties of fetchAll and of the main loop                             *)
(***************************************************************************)
\* every request of the running fetchAll was answered ok: nReq stops
\* counting at MaxReq, which no run without 429 and without error reaches
Clean == nReq = Len(fetched)

RECURSIVE ConcatFetched(_)
\* the records of the ok responses received, page after page, unfiltered
ConcatFetched(f) ==
    IF f = <<>> THEN <<>>
    ELSE ConcatFetched(SubSeq(f, 1, Len(f) - 1))
             \o PageOf(f[Len(f)].page, f[Len(f)].len, f[Len(f)].kind)

NonMisc(records) == SelectSeq(records, LAMBDA r : r.item_type # "Misc")

MiscCount(records) ==
    Cardinality({i \in 1..Len(records) : records[i].item_type = "Misc"})

\* the ok responses of a run without retries: pages 1, 2, ... in order, all
\* full but the last, which is short or empty
StopsAtFirstShortPage ==
    LET n == Len(fetched)
    IN /\ n >= 1
       /\ \A i \in 1..n : fetched[i].page = i
       /\ \A i \in 1..(n - 1) : fetched[i].len = PageSize
       /\ fetched[n].len < PageSize
       /\ nReq = n

FullAndLast == PageSize * (Len(fetched) - 1) + fetched[Len(fetched)].len

\* C1 as stated: for any collection, a run without 429 and without error
\* over N full pages and a final page of k < 50 records requests pages
\* 1..N+1 in order, issues N+1 requests and returns 50*N + k records.
C1_Original ==
    (pc = "returned" /\ Clean) =>
        (StopsAtFirstShortPage /\ Len(retval) = FullAndLast)

\* C1 amended: pages 1..N+1 are requested in order with exactly N+1
\* requests; the result has 50*N + k records for arcs and quests, and for
\* items 50*N + k less the number of records of item_type Misc served.
C1_Pagination ==
    /\ (pc = "returned" /\ Clean) =>
         /\ StopsAtFirstShortPage
         /\ Len(retval) = FullAndLast
               - (IF endpoint = "items" THEN MiscCount(ConcatFetched(fetched)) ELSE 0)
    /\ (pc \in {"loop", "sleep1500"} /\ Clean) =>
         /\ page = Len(fetched) + 1
         /\ \A i \in 1..Len(fetched) : fetched[i].page = i /\ fetched[i].len = PageSize

\* three requests, page sizes 50, 50, 37, and 137 records returned
C1_Witness ==
    /\ pc = "returned"
    /\ endpoint = "arcs"
    /\ Clean
    /\ nReq = 3
    /\ [i \in 1..3 |-> fetched[i].len] = <<PageSize, PageSize, 37>>
    /\ Len(retval) = 137

\* C2 as stated: for every collection, items included, the returned
\* sequence is the concatenation of the fetched pages, nothing omitted.
C2_Original ==
    pc = "returned" => retval = ConcatFetched(fetched)

\* C2 amended: the accumulated, returned and persisted sequence is the
\* concatenation of the fetched pages in page order for arcs and quests,
\* and that concatenation without its Misc records, order kept, for items.
C2_Output ==
    LET expected == IF endpoint = "items"
                    THEN NonMisc(ConcatFetched(fetched))
                    ELSE ConcatFetched(fetched)
    IN /\ pc \in {"loop", "sleep10000", "sleep5000", "sleep1500"} => all = expected
       /\ pc = "returned" =>
            /\ retval = expected
            /\ files[endpoint].pretty.json = expected
            /\ files[endpoint].min.json = expected

\* items returned after two pages holding Misc records, none of them kept
C2_Witness ==
    /\ pc = "returned"
    /\ endpoint = "items"
    /\ Len(fetched) = 2
    /\ fetched[1].kind = "mixed"
    /\ fetched[2].len = 37
    /\ MiscCount(ConcatFetched(fetched)) > 0
    /\ Len(retval) > 0
    /\ Len(retval) < Len(ConcatFetched(fetched))

Sleeping == {"sleep10000", "sleep5000", "sleep1500"}

\* C3: a 429 answer to the request for page p leaves page and all as they
\* were and the same page p is requested next; whatever 429 answers a run
\* received, the ok responses it used are pages 1, 2, ... each once, so
\* the result is that of the run without them.
C3_RetrySamePage ==
    /\ [][(pc = "loop" /\ lastStatus' = "429") =>
             /\ pc' = "sleep10000"
             /\ page' = page
             /\ all' = all
             /\ fetched' = fetched]_vars
    /\ [][(pc = "sleep10000") => (pc' = "loop" /\ page' = page /\ all' = all)]_vars
    /\ [](\A i \in 1..Len(fetched) : fetched[i].page = i)

\* arcs: one request answered 429, then pages 1 and 2 fetched once each
C3_Witness ==
    /\ pc = "returned"
    /\ endpoint = "arcs"
    /\ n429 = 1
    /\ nReq = 3
    /\ lastStatus = "ok"
    /\ [i \in 1..Len(fetched) |-> fetched[i].len] = <<PageSize, 37>>
    /\ retval = ConcatFetched(fetched)
    /\ files[endpoint].min.json = retval

\* C4: on a failure other than 429 while requesting page p, with nothing
\* accumulated the same page is requested again after the back-off; with
\* at least one record accumulated the loop stops, and what is returned and
\* persisted is exactly what was accumulated before the failure.
C4_ErrorPolicy ==
    /\ [][(pc = "loop" /\ lastStatus' = "error") =>
             IF Len(all) = 0
             THEN /\ pc' = "sleep5000"
                  /\ page' = page
                  /\ all' = all
                  /\ files' = files
             ELSE /\ pc' = "returned"
                  /\ retval' = all
                  /\ files'[endpoint].pretty.json = all
                  /\ files'[endpoint].min.json = all
                  /\ \A ep \in DOMAIN files : ep # endpoint => files'[ep] = files[ep]]_vars
    /\ [][(pc = "sleep5000") => (pc' = "loop" /\ page' = page /\ all' = all)]_vars

\* quests: page 2 failed after page 1 was accumulated; page 1 is the result
C4_Witness ==
    /\ pc = "returned"
    /\ endpoint = "quests"
    /\ lastStatus = "error"
    /\ page = 2
    /\ Len(retval) = PageSize
    /\ retval = ConcatFetched(fetched)
    /\ files[endpoint].min.json = retval

Written(ep) == ep \in DOMAIN files

AllWritten == \A i \in 1..Len(ENDPOINTS) : Written(ENDPOINTS[i])

\* C5 as stated, in the case it names (failures other than 429, from the
\* first page on): whatever the upstream does on one collection's pages,
\* fetchAll is eventually invoked for each later entry of ENDPOINTS.
C5_Original ==
    ([](n429 = 0 /\ (endpoint = "items" => lastStatus # "ok"))) =>
        \A j \in 2..Len(ENDPOINTS) : <>(pc = "loop" /\ endpoint = ENDPOINTS[j])

\* C5 amended: whenever a collection's loop ends (an empty page, a short
\* page, or a failure after at least one record was accumulated) its files
\* are written and fetchAll is then invoked for the next entry of ENDPOINTS;
\* no failure ends the run.
C5_Containment ==
    \A i \in 1..(Len(ENDPOINTS) - 1) :
        (pc = "returned" /\ epIdx = i)
            ~> (/\ pc = "loop"
                /\ endpoint = ENDPOINTS[i + 1]
                /\ Written(ENDPOINTS[i]))

\* items ended on a failure with one page accumulated; main goes on to arcs
C5_Witness ==
    /\ pc = "main"
    /\ epIdx = 2
    /\ endpoint = "items"
    /\ lastStatus = "error"
    /\ Len(retval) > 0
    /\ files["items"].min.json = retval
    /\ ~Written("arcs")

\* C6: no number of 429 answers ends the loop or writes a file; the loop
\* ends only on an ok response with an empty or short page, or on an error
\* with accumulated data, and until then the collection's files are unwritten.
C6_NoRetryCap ==
    /\ [][(pc = "loop" /\ lastStatus' = "429") =>
             (pc' = "sleep10000" /\ files' = files /\ retval' = retval)]_vars
    /\ [](pc = "returned" =>
             \/ /\ lastStatus = "ok"
                /\ fetched # <<>>
                /\ fetched[Len(fetched)].len < PageSize
             \/ /\ lastStatus = "error"
                /\ Len(retval) > 0)
    /\ [](pc \in {"loop"} \cup Sleeping => ~Written(endpoint))

\* Max429 answers of 429 in a row from the first request on, still waiting
C6_Witness ==
    /\ pc = "sleep10000"
    /\ n429 = Max429
    /\ nReq = Max429
    /\ fetched = <<>>
    /\ ~Written(endpoint)

(***************************************************************************)
(* Properties of processWeapons                                            *)
(***************************************************************************)
\* the five numerals in any mix of upper and lower case
AnyCaseNumerals ==
    UNION {{str \in [1..Len(Numerals[n]) -> {"I", "i", "V", "v"}] :
               \A k \in 1..Len(str) :
                   \/ str[k] = Numerals[n][k]
                   \/ (Numerals[n][k] = "I" /\ str[k] = "i")
                   \/ (Numerals[n][k] = "V" /\ str[k] = "v")} : n \in 1..Len(Numerals)}

\* the splits of a name into a part kept, one or more spaces, and a numeral
SuffixSplits(name) ==
    {cut \in UNION {[keep : 0..(k - 2), numeral : {k}] :
                       k \in {k \in 2..Len(name) :
                                 /\ name[k - 1] = " "
                                 /\ SubSeq(name, k, Len(name)) \in AnyCaseNumerals}} :
        /\ cut.keep < cut.numeral - 1
        /\ \A k \in (cut.keep + 1)..(cut.numeral - 1) : name[k] = " "
        /\ SubSeq(name, cut.numeral, Len(name)) \in AnyCaseNumerals
        /\ (cut.keep > 0 => name[cut.keep] # " ")}

\* the name with its trailing whitespace and roman numeral stripped
StrippedName(name) ==
    IF SuffixSplits(name) = {} THEN name
    ELSE SubSeq(name, 1, (CHOOSE cut \in SuffixSplits(name) : TRUE).keep)

RECURSIVE TrimmedName(_)
\* a name without the spaces at its two ends
TrimmedName(name) ==
    IF name = <<>> THEN name
    ELSE IF name[1] = " " THEN TrimmedName(Tail(name))
    ELSE IF name[Len(name)] = " " THEN TrimmedName(SubSeq(name, 1, Len(name) - 1))
    ELSE name

\* the upgrade rank of a name: that of its numeral in either case, 1 without
UpgradeRank(name) ==
    IF SuffixSplits(name) = {} THEN 1
    ELSE LET numeral == SubSeq(name, (CHOOSE cut \in SuffixSplits(name) : TRUE).numeral,
                               Len(name))
         IN CHOOSE n \in 1..Len(Numerals) :
                /\ Len(Numerals[n]) = Len(numeral)
                /\ \A k \in 1..Len(numeral) :
                       numeral[k] \in {Numerals[n][k], LowerChar(Numerals[n][k])}

\* the positions of the weapon records in the items collection
WeaponPositions ==
    {p \in 1..Len(allItems) :
        "item_type" \in DOMAIN allItems[p] /\ allItems[p].item_type = "Weapon"}

\* the input record a level entry was made from
SourceOf(entry) == allItems[entry.value]

\* the group holding the record at a position of the input
GroupsOf(position) ==
    {g \in 1..Len(processed) :
        \E i \in 1..Len(processed[g].levels) : processed[g].levels[i].value = position}

\* grouping by a key: same group iff same key, as many groups as keys, and
\* each group named by the key of its records
GroupedBy(Key(_)) ==
    /\ \A i, j \in WeaponPositions :
           (GroupsOf(i) \cap GroupsOf(j) # {}) <=> (Key(allItems[i].name) = Key(allItems[j].name))
    /\ Len(processed) = Cardinality({Key(allItems[i].name) : i \in WeaponPositions})
    /\ \A g \in 1..Len(processed) : \A i \in 1..Len(processed[g].levels) :
           processed[g].baseName = Key(SourceOf(processed[g].levels[i]).name)

TrimmedStrippedName(name) == TrimmedName(StrippedName(name))

\* C7 as stated: two records share a group iff their names are identical
\* after stripping the whitespace and roman numeral suffix; there are as many
\* groups as stripped names and each baseName is that stripped name.
C7_Original == (wpc = "done") => GroupedBy(StrippedName)

\* C7 amended: the same with names compared after stripping the suffix and
\* then trimming the whitespace at both ends, which is also the baseName.
C7_Grouping == (wpc = "done") => GroupedBy(TrimmedStrippedName)

\* Viper III, Viper I, Viper II: one group Viper with levels I, II, III
C7_Witness ==
    /\ wpc = "done"
    /\ [i \in 1..Len(weapons) |-> weapons[i].name]
           = <<Viper \o <<" ">> \o Numerals[3], Viper \o <<" ">> \o Numerals[1],
               Viper \o <<" ">> \o Numerals[2]>>
    /\ Len(processed) = 1
    /\ processed[1].baseName = Viper
    /\ [i \in 1..Len(processed[1].levels) |-> processed[1].levels[i].level]
           = <<Numerals[1], Numerals[2], Numerals[3]>>

\* C8: in every group the levels are in ascending order of the upgrade rank
\* of their records' names, for every suffix the grouping rule recognises
\* (either case), a name without suffix ranking 1.
C8_LevelOrder ==
    (wpc = "done") =>
        \A g \in 1..Len(processed) : \A i \in 1..(Len(processed[g].levels) - 1) :
            UpgradeRank(SourceOf(processed[g].levels[i]).name)
                <= UpgradeRank(SourceOf(processed[g].levels[i + 1]).name)

\* the stats of a record hold fireRate and increasedFireRate as the data
\* model gives them: absent or positive
AbsentOrPositive(stats) ==
    \A key \in {"fireRate", "increasedFireRate"} : key \in DOMAIN stats => stats[key] > 0

\* a level that replaces the fire rate: not the lowest, with a fireRate of
\* its own that differs from the base and without increasedFireRate
ReplacesFireRate(g, i) ==
    LET stats == StatBlockOf(SourceOf(processed[g].levels[i]))
    IN /\ i > 1
       /\ "fireRate" \in DOMAIN stats
       /\ stats.fireRate # processed[g].baseStats.fireRate
       /\ "increasedFireRate" \notin DOMAIN stats

Entries == {e \in (1..Len(processed)) \X (1..MaxWeapons) : e[2] <= Len(processed[e[1]].levels)}

\* C9: every level that is not a direct override has fireRate equal to
\* base fireRate * (1 + m / 100), m its own increasedFireRate or 0, and
\* hasDirectOverrides.fireRate is the boolean false.
C9_Derived ==
    (wpc = "done") =>
        \A e \in Entries :
            LET entry == processed[e[1]].levels[e[2]]
                stats == StatBlockOf(SourceOf(entry))
                m == IF "increasedFireRate" \in DOMAIN stats THEN stats.increasedFireRate ELSE 0
            IN (AbsentOrPositive(stats) /\ ~ReplacesFireRate(e[1], e[2])) =>
                   /\ entry.stats.fireRate * 100 = processed[e[1]].baseStats.fireRate * (100 + m)
                   /\ entry.hasDirectOverrides.fireRate = "false"

\* C10: over records whose fireRate and increasedFireRate are absent or
\* positive, a level is flagged true with its own fireRate as the result
\* iff it is not the lowest, has a fireRate differing from the base, and has
\* no increasedFireRate; the lowest level of a group is never flagged.
C10_DirectOverride ==
    (wpc = "done") =>
        \A e \in Entries :
            LET entry == processed[e[1]].levels[e[2]]
                stats == StatBlockOf(SourceOf(entry))
            IN /\ AbsentOrPositive(stats) =>
                    ((/\ entry.hasDirectOverrides.fireRate = "true"
                      /\ "fireRate" \in DOMAIN stats
                      /\ entry.stats.fireRate = stats.fireRate)
                        <=> ReplacesFireRate(e[1], e[2]))
               /\ e[2] = 1 => entry.hasDirectOverrides.fireRate = "false"

\* base fireRate 100, Viper II with fireRate 150 and no modifier: 150, true
C10_Witness ==
    /\ wpc = "done"
    /\ Len(weapons) = 2
    /\ weapons[1].stat_block = [fireRate |-> 100]
    /\ weapons[2].stat_block = [fireRate |-> 150]
    /\ weapons[2].name = Viper \o <<" ">> \o Numerals[2]
    /\ processed[1].baseStats.fireRate = 100
    /\ processed[1].levels[2].stats.fireRate = 150
    /\ processed[1].levels[2].hasDirectOverrides.fireRate = "true"

\* C11: damagePerSecond of every level is the base damagePerSecond times
\* (1 + m / 100), m the level's own increasedFireRate or 0, whatever the
\* record's own damagePerSecond and whether or not the fire rate is replaced.
C11_DamagePerSecond ==
    (wpc = "done") =>
        \A e \in Entries :
            LET entry == processed[e[1]].levels[e[2]]
                stats == StatBlockOf(SourceOf(entry))
                m == IF "increasedFireRate" \in DOMAIN stats THEN stats.increasedFireRate ELSE 0
            IN entry.stats.damagePerSecond * 100
                   = processed[e[1]].baseStats.damagePerSecond * (100 + m)

\* base 200; Viper II with damagePerSecond 250 and increasedFireRate 50 has
\* 300, Viper III with damagePerSecond 250 and a fire rate of its own has 200
C11_Witness ==
    /\ wpc = "done"
    /\ Len(weapons) = 3
    /\ weapons[1].stat_block = [fireRate |-> 100, damagePerSecond |-> 200]
    /\ weapons[2].stat_block = [damagePerSecond |-> 250, increasedFireRate |-> 50]
    /\ weapons[3].stat_block = [damagePerSecond |-> 250, fireRate |-> 150]
    /\ processed[1].levels[2].stats.damagePerSecond = 300
    /\ processed[1].levels[3].hasDirectOverrides.fireRate = "true"
    /\ processed[1].levels[3].stats.damagePerSecond = 200

\* the stats that are resolved without scaling
CoreKeys == StatKeys \ {"fireRate", "damagePerSecond"}

\* C12: each of damage, range, stability, agility, stealth, magazineSize and
\* weight of a level is the value of the level's own stat block whenever
\* the stat block has one, whatever the value, and the base value otherwise.
C12_OwnValue ==
    (wpc = "done") =>
        \A e \in Entries : \A key \in CoreKeys :
            LET entry == processed[e[1]].levels[e[2]]
                stats == StatBlockOf(SourceOf(entry))
            IN entry.stats[key] = IF key \in DOMAIN stats THEN stats[key]
                                  ELSE processed[e[1]].baseStats[key]

\* the value of a key, an absent key counted as 0
ValueOr0(f, key) == IF key \in DOMAIN f THEN f[key] ELSE 0

Largest(S) == CHOOSE x \in S : \A y \in S : y <= x

\* C13: at every level k and for every modifier key, modifiers[key] is the
\* largest value of the key over the stat blocks of levels 0..k of the
\* group (an absent key counted as 0), and activeModifiers[key] is the value
\* of level k's own stat block (0 when absent).
C13_RunningMaximum ==
    (wpc = "done") =>
        \A e \in Entries : \A key \in ModifierKeys :
            LET levels == processed[e[1]].levels
                entry == levels[e[2]]
            IN /\ ValueOr0(entry.modifiers, key)
                      = Largest({ValueOr0(StatBlockOf(SourceOf(levels[j])), key) : j \in 1..e[2]})
               /\ entry.activeModifiers[key] = ValueOr0(StatBlockOf(SourceOf(entry)), key)

\* increasedFireRate 20, 10, none: cumulative 20, 20, 20 and active 20, 10, 0
C13_Witness ==
    /\ wpc = "done"
    /\ Len(weapons) = 3
    /\ weapons[1].stat_block = [increasedFireRate |-> 20]
    /\ weapons[2].stat_block = [increasedFireRate |-> 10]
    /\ weapons[3].stat_block = [reducedReloadTime |-> 15]
    /\ \A i \in 1..3 : processed[1].levels[i].modifiers.increasedFireRate = 20
    /\ processed[1].levels[2].activeModifiers.increasedFireRate = 10
    /\ processed[1].levels[3].activeModifiers.increasedFireRate = 0

\* no modifier of the input is negative
NonNegativeModifiers ==
    \A i \in 1..Len(weapons) : \A key \in ModifierKeys :
        ValueOr0(StatBlockOf(weapons[i]), key) >= 0

\* C14: with no negative modifier in the input, modifiers[key] never
\* decreases from one level of a group to the next (absent counted as 0).
C14_Monotonic ==
    (wpc = "done" /\ NonNegativeModifiers) =>
        \A e \in Entries : \A key \in ModifierKeys :
            e[2] > 1 =>
                ValueOr0(processed[e[1]].levels[e[2] - 1].modifiers, key)
                    <= ValueOr0(processed[e[1]].levels[e[2]].modifiers, key)

\* increasedFireRate 20 and then none: the cumulative value stays 20, while
\* reducedReloadTime goes from absent to 15
C14_Witness ==
    /\ wpc = "done"
    /\ Len(weapons) = 2
    /\ weapons[1].stat_block = [increasedFireRate |-> 20]
    /\ weapons[2].stat_block = [reducedReloadTime |-> 15]
    /\ processed[1].levels[1].modifiers = [increasedFireRate |-> 20]
    /\ processed[1].levels[2].modifiers = [increasedFireRate |-> 20, reducedReloadTime |-> 15]

\* C15: every group has at least one level, and the level at index i
\* (counted from 0) has levelNumber i + 1.
C15_LevelNumbers ==
    (wpc = "done") =>
        \A g \in 1..Len(processed) :
            /\ Len(processed[g].levels) >= 1
            /\ \A i \in 0..(Len(processed[g].levels) - 1) :
                   processed[g].levels[i + 1].levelNumber = i + 1

\* Viper II, Ferro I, Viper I: a group of two levels and a group of one
C15_Witness ==
    /\ wpc = "done"
    /\ [i \in 1..Len(weapons) |-> weapons[i].name]
           = <<Viper \o <<" ">> \o Numerals[2], Ferro \o <<" ">> \o Numerals[1],
               Viper \o <<" ">> \o Numerals[1]>>
    /\ Len(processed) = 2
    /\ [i \in 1..Len(processed[1].levels) |-> processed[1].levels[i].levelNumber] = <<1, 2>>
    /\ [i \in 1..Len(processed[1].levels) |-> processed[1].levels[i].value] = <<3, 1>>
    /\ [i \in 1..Len(processed[2].levels) |-> processed[2].levels[i].levelNumber] = <<1>>

\* the positions of the records of a group
PositionsOf(g) == {processed[g].levels[i].value : i \in 1..Len(processed[g].levels)}

\* the lowest-rank record of a group: the first of the input among those of
\* the least upgrade rank
LowestRankRecord(g) ==
    LET least == {p \in PositionsOf(g) :
                     \A q \in PositionsOf(g) :
                         UpgradeRank(allItems[p].name) <= UpgradeRank(allItems[q].name)}
    IN allItems[CHOOSE p \in least : \A q \in least : p <= q]

\* a name that ends in a numeral not written in upper case
LowerCaseNumeral(name) ==
    /\ SuffixSplits(name) # {}
    /\ \A n \in 1..Len(Numerals) :
           SubSeq(name, (CHOOSE cut \in SuffixSplits(name) : TRUE).numeral, Len(name))
               # Numerals[n]

\* the declared subcategory, trimmed and renamed
DeclaredSubcategory(record) ==
    LET trimmed == IF "subcategory" \in DOMAIN record
                   THEN TrimmedName(record.subcategory) ELSE <<>>
    IN IF trimmed = HandCannon THEN Pistol
       ELSE IF trimmed = BattleRifle THEN Rifle
       ELSE trimmed

Contains(name, part) ==
    \E before, after \in 0..Len(name) :
        /\ before + Len(part) + after = Len(name)
        /\ \A k \in 1..Len(part) : name[before + k] = part[k]

\* C16: the subcategory of a group is that of its lowest-rank record: Rifle
\* for a name containing Ferro or Renegade, else LMG for Torrente, Sniper
\* Rifle for Osprey, SMG for Stitcher, Shotgun for Il Toro, whatever is
\* declared, and otherwise the trimmed declared subcategory with Hand Cannon
\* renamed Pistol and Battle Rifle renamed Rifle.  Stated over the groups
\* whose names carry their numerals in upper case.
C16_Subcategory ==
    (wpc = "done") =>
        \A g \in 1..Len(processed) :
            (\A p \in PositionsOf(g) : ~LowerCaseNumeral(allItems[p].name)) =>
                LET record == LowestRankRecord(g)
                    name == record.name
                IN processed[g].subcategory =
                       IF Contains(name, Ferro) \/ Contains(name, Renegade) THEN Rifle
                       ELSE IF Contains(name, Torrente) THEN LMG
                       ELSE IF Contains(name, Osprey) THEN SniperRifle
                       ELSE IF Contains(name, Stitcher) THEN SMG
                       ELSE IF Contains(name, IlToro) THEN Shotgun
                       ELSE DeclaredSubcategory(record)

\* Torrente II declared SMG before Torrente I declared Assault Rifle: LMG
C16_Witness ==
    /\ wpc = "done"
    /\ Len(weapons) = 2
    /\ weapons[1].name = Torrente \o <<" ">> \o Numerals[2]
    /\ weapons[2].name = Torrente \o <<" ">> \o Numerals[1]
    /\ "subcategory" \in DOMAIN weapons[1] /\ weapons[1].subcategory = SMG
    /\ "subcategory" \in DOMAIN weapons[2] /\ weapons[2].subcategory = AssaultRifle
    /\ processed[1].subcategory = LMG

SingleRecordGroups ==
    {g \in 1..Len(processed) :
        Cardinality({p \in WeaponPositions :
                        TrimmedStrippedName(allItems[p].name) = processed[g].baseName}) = 1}

\* C18 as stated: a group of one record has one level, and every stat of
\* that level equals the base stat, whatever the record's stat block.
C18_Original ==
    (wpc = "done") =>
        \A g \in SingleRecordGroups :
            /\ Len(processed[g].levels) = 1
            /\ \A key \in StatKeys : processed[g].levels[1].stats[key] = processed[g].baseStats[key]

\* C18 amended: a group of one record has one level; its damage, range,
\* stability, agility, stealth, magazineSize and weight equal the base stats,
\* and its fireRate and damagePerSecond are the base stats times
\* (1 + m / 100), m the record's increasedFireRate or 0.
C18_SingleRecord ==
    (wpc = "done") =>
        \A g \in SingleRecordGroups :
            LET entry == processed[g].levels[1]
                m == ValueOr0(StatBlockOf(SourceOf(entry)), "increasedFireRate")
            IN /\ Len(processed[g].levels) = 1
               /\ \A key \in CoreKeys : entry.stats[key] = processed[g].baseStats[key]
               /\ \A key \in {"fireRate", "damagePerSecond"} :
                      entry.stats[key] * 100 = processed[g].baseStats[key] * (100 + m)

\* one record with fireRate 100, damagePerSecond 200 and increasedFireRate 50
C18_Witness ==
    /\ wpc = "done"
    /\ Len(weapons) = 1
    /\ weapons[1].stat_block = [fireRate |-> 100, damagePerSecond |-> 200, increasedFireRate |-> 50]
    /\ Len(processed) = 1
    /\ Len(processed[1].levels) = 1
    /\ processed[1].baseStats.fireRate = 100
    /\ processed[1].levels[1].stats.fireRate = 150
    /\ processed[1].levels[1].stats.damagePerSecond = 300

\* C19: processWeapons never raises, whatever fields the weapon records
\* lack (stat_block, stat fields, name, numeral, id).
C19_NeverRaises == wpc # "threw"

C21_WriteOnce ==
    /\ [][(files' # files) =>
             /\ pc = "loop"
             /\ pc' = "returned"
             /\ ~Written(endpoint)
             /\ DOMAIN files' = DOMAIN files \cup {endpoint}
             /\ \A ep \in DOMAIN files : files'[ep] = files[ep]
             /\ files'[endpoint].pretty.json = retval'
             /\ files'[endpoint].min.json = retval'
             /\ retval' = all']_vars
    /\ [][(pc # "returned" /\ pc' = "returned") => files' # files]_vars
    /\ [][(pc = "returned") => files' = files]_vars

\* arcs: two pages fetched and written, the files of items untouched
C21_Witness ==
    /\ pc = "returned"
    /\ endpoint = "arcs"
    /\ Written("items")
    /\ Written("arcs")
    /\ ~Written("quests")
    /\ Len(fetched) = 2
    /\ Len(retval) = PageSize + 37
    /\ files["arcs"].pretty.json = retval
    /\ files["arcs"].min.json = retval

HasMisc(records) == \E i \in 1..Len(records) : records[i].item_type = "Misc"

\* C25: for items, no Misc record is in all, in the returned sequence or in
\* the written files; after an ok page the loop continues exactly when the
\* unfiltered page held 50 records, whatever the filter kept; and an error
\* met while nothing is accumulated is retried on the same page.
C25_MiscFilter ==
    /\ [](endpoint = "items" =>
             /\ ~HasMisc(all)
             /\ (pc = "returned" => ~HasMisc(retval))
             /\ (Written("items") =>
                    /\ ~HasMisc(files["items"].pretty.json)
                    /\ ~HasMisc(files["items"].min.json)))
    /\ [](~HasMisc(allItems))
    /\ [][(pc = "loop" /\ lastStatus' = "ok" /\ endpoint = "items") =>
             LET len == fetched'[Len(fetched')].len
             IN /\ Len(fetched') = Len(fetched) + 1
                /\ (len = PageSize) => (pc' = "sleep1500" /\ page' = page + 1)
                /\ (len < PageSize) => pc' = "returned"]_vars
    /\ [][(pc = "loop" /\ lastStatus' = "error" /\ endpoint = "items"
              /\ Len(all) = 0) =>
             (pc' = "sleep5000" /\ page' = page /\ files' = files)]_vars

\* items: a first page of 50 Misc records, then an error on page 2, retried
C25_Witness ==
    /\ endpoint = "items"
    /\ fetched = <<[page |-> 1, len |-> PageSize, kind |-> "allMisc"]>>
    /\ lastStatus = "error"
    /\ pc = "sleep5000"
    /\ page = 2
    /\ all = <<>>

(***************************************************************************)
(* levelNumber and the level label; fire rate and the cumulative modifier  *)
(***************************************************************************)
\* the value of a roman-numeral label written in either case
NumeralValue(label) ==
    CHOOSE n \in 1..Len(Numerals) :
        /\ Len(Numerals[n]) = Len(label)
        /\ \A k \in 1..Len(label) :
               label[k] \in {Numerals[n][k], LowerChar(Numerals[n][k])}

\* C24 as stated: the levelNumber of every level entry is the value of the
\* roman numeral in its level field.
C24_Original ==
    (wpc = "done") =>
        \A e \in Entries :
            processed[e[1]].levels[e[2]].levelNumber
                = NumeralValue(processed[e[1]].levels[e[2]].level)

\* the labels of a group's levels are I, II, ... up to its size, once each
LabelsAreRanks(g) ==
    \A r \in 1..Len(processed[g].levels) :
        Cardinality({i \in 1..Len(processed[g].levels) :
                        processed[g].levels[i].level = Numerals[r]}) = 1

\* C24: levelNumber is the position of the entry among the group's levels,
\* counted from 1; it is the value of the entry's label in every group whose
\* labels are the upper-case numerals I, II, ... up to the group's size,
\* once each.
C24_LevelNumber ==
    (wpc = "done") =>
        \A g \in 1..Len(processed) :
            /\ \A i \in 1..Len(processed[g].levels) :
                   processed[g].levels[i].levelNumber = i
            /\ LabelsAreRanks(g) =>
                   \A i \in 1..Len(processed[g].levels) :
                       processed[g].levels[i].levelNumber
                           = NumeralValue(processed[g].levels[i].level)

\* Viper III and Viper II in this order, no Viper I: the levels are labelled
\* II and III and numbered 1 and 2
C24_Witness ==
    /\ wpc = "done"
    /\ [i \in 1..Len(weapons) |-> weapons[i].name]
           = <<Viper \o <<" ">> \o Numerals[3], Viper \o <<" ">> \o Numerals[2]>>
    /\ Len(processed) = 1
    /\ [i \in 1..2 |-> processed[1].levels[i].level] = <<Numerals[2], Numerals[3]>>
    /\ [i \in 1..2 |-> processed[1].levels[i].levelNumber] = <<1, 2>>

\* a level entry without a direct fire-rate override
NotOverridden(entry) == entry.hasDirectOverrides.fireRate # "true"

\* C30 as stated: without a direct override, stats.fireRate is the base
\* fire rate scaled by the entry's cumulative increasedFireRate, and with
\* non-negative modifiers and no override in a group stats.fireRate never
\* decreases from one level to the next.
C30_Original ==
    (wpc = "done") =>
        /\ \A e \in Entries :
               LET entry == processed[e[1]].levels[e[2]]
               IN NotOverridden(entry) =>
                      entry.stats.fireRate * 100
                          = processed[e[1]].baseStats.fireRate
                                * (100 + ValueOr0(entry.modifiers, "increasedFireRate"))
        /\ NonNegativeModifiers =>
               \A e \in Entries :
                   (/\ e[2] > 1
                    /\ \A i \in 1..Len(processed[e[1]].levels) :
                           NotOverridden(processed[e[1]].levels[i]))
                       => processed[e[1]].levels[e[2] - 1].stats.fireRate
                              <= processed[e[1]].levels[e[2]].stats.fireRate

\* C30: without a direct override, stats.fireRate is the base fire rate
\* scaled by the level's own increasedFireRate (activeModifiers, 0 when the
\* record has none), whatever the cumulative modifier is; so with
\* non-negative modifiers it is never below the base fire rate, and it does
\* not decrease between two levels whose own increasedFireRate does not.
C30_OwnModifier ==
    (wpc = "done") =>
        \A e \in Entries :
            LET levels == processed[e[1]].levels
                entry == levels[e[2]]
                base == processed[e[1]].baseStats.fireRate
            IN NotOverridden(entry) =>
                   /\ entry.stats.fireRate * 100
                          = base * (100 + entry.activeModifiers.increasedFireRate)
                   /\ entry.activeModifiers.increasedFireRate
                          = ValueOr0(StatBlockOf(SourceOf(entry)), "increasedFireRate")
                   /\ NonNegativeModifiers => entry.stats.fireRate >= base
                   /\ (/\ NonNegativeModifiers
                       /\ e[2] > 1
                       /\ NotOverridden(levels[e[2] - 1])
                       /\ levels[e[2] - 1].activeModifiers.increasedFireRate
                              <= entry.activeModifiers.increasedFireRate)
                          => levels[e[2] - 1].stats.fireRate <= entry.stats.fireRate

\* base fire rate 100 with increasedFireRate 20 at level I and no modifier
\* at level II: the cumulative modifier of level II is 20 and its fire rate
\* is 100, below the 120 of level I
C30_Witness ==
    /\ wpc = "done"
    /\ Len(weapons) = 2
    /\ Len(processed) = 1
    /\ weapons[1].stat_block = [fireRate |-> 100, increasedFireRate |-> 20]
    /\ weapons[2].stat_block = [fireRate |-> 100]
    /\ processed[1].levels[1].stats.fireRate = 120
    /\ processed[1].levels[2].stats.fireRate = 100
    /\ processed[1].levels[2].modifiers = [increasedFireRate |-> 20]
    /\ NotOverridden(processed[1].levels[2])

(***************************************************************************)
(* Property of fetchMapData                                                *)
(***************************************************************************)
\* C27: once fetchMapData has completed, maps.json and maps.min.json hold an
\* entry for every name of MAPS, and no more than two requests were issued
\* for any map.
C27_EveryMapPersisted ==
    /\ mapReqs <= 2
    /\ (mpc = "done") =>
           \A i \in 1..Len(MAPS) :
               /\ MAPS[i] \in DOMAIN mapFiles.pretty.json
               /\ MAPS[i] \in DOMAIN mapFiles.min.json

(***************************************************************************)
(* Properties of the proxy handlers                                        *)
(***************************************************************************)
\* C23: every response either handler returns carries the header
\* Access-Control-Allow-Origin: *, and every invocation of a handler ends by
\* returning a response with a status code, the invocations on an event that
\* makes the handler's code raise and those whose upstream fetch fails
\* included.
C23_CorsOnEveryPath ==
    /\ [](response # None =>
             /\ CorsHeader \in DOMAIN response.headers
             /\ response.headers[CorsHeader] = "*")
    /\ []((ppc = "idle" /\ pevent # None) =>
             (response # None /\ response.statusCode \in {200, 404, 500, 502}))
    /\ [][(ppc \in {"handling", "awaiting"} /\ ppc' = "idle") => response' # None]_vars

\* proxy.js, an event without path: the TypeError is caught and answered 500
C23_Witness ==
    /\ deployed = "proxy.js"
    /\ ppc = "idle"
    /\ pevent # None
    /\ EventThrows(pevent)
    /\ response.statusCode = 500
    /\ response.headers[CorsHeader] = "*"

\* a body that begins, its leading spaces apart, with { or [
LooksLikeJson(bodyText) ==
    /\ TrimmedName(bodyText) # <<>>
    /\ TrimmedName(bodyText)[1] \in {"{", "["}

\* an upstream response that is HTML by its content type or by its body
UpstreamIsHtml ==
    \/ (upstream.header # None /\ Contains(upstream.header, TextHtml))
    \/ (Len(upstream.body) >= Len(Doctype)
            /\ \A k \in 1..Len(Doctype) : upstream.body[k] = Doctype[k])

\* C26: in the caching handler, an event whose target has a cache file
\* younger than 7 days is answered 200 with X-Cache: HIT and the file's
\* content, without an upstream request; the files of CACHE_DIR change only
\* by ageing or by the write of the body of an upstream response that is ok,
\* not HTML, and begins with { or [ once trimmed; an HTML upstream response
\* is answered 502 and leaves the files alone; so every cache file holds a
\* body the upstream sent with an ok status.
C26_ProxyCache ==
    /\ [][(/\ ppc = "handling"
           /\ ppc' # "handling"
           /\ deployed = "part_003"
           /\ ~EventThrows(pevent)
           /\ TargetOf(pevent) \in DOMAIN cacheFiles
           /\ cacheFiles[TargetOf(pevent)].young) =>
             /\ response'.statusCode = 200
             /\ response'.headers["X-Cache"] = "HIT"
             /\ response'.body = cacheFiles[TargetOf(pevent)].body
             /\ ppc' = "idle"
             /\ upstream' = None
             /\ cacheFiles' = cacheFiles]_vars
    /\ [][(cacheFiles' # cacheFiles) =>
             \/ /\ DOMAIN cacheFiles' = DOMAIN cacheFiles
                /\ \A t \in DOMAIN cacheFiles :
                       /\ cacheFiles'[t].body = cacheFiles[t].body
                       /\ cacheFiles[t].young \/ ~cacheFiles'[t].young
             \/ /\ ppc = "awaiting"
                /\ deployed = "part_003"
                /\ upstream'.status \in 200..299
                /\ LooksLikeJson(upstream'.body)
                /\ DOMAIN cacheFiles' = DOMAIN cacheFiles \cup {TargetOf(pevent)}
                /\ cacheFiles'[TargetOf(pevent)].body = upstream'.body
                /\ cacheFiles'[TargetOf(pevent)].young
                /\ \A t \in DOMAIN cacheFiles :
                       t # TargetOf(pevent) => cacheFiles'[t] = cacheFiles[t]]_vars
    /\ []((deployed = "part_003" /\ ppc = "idle" /\ upstream # None /\ UpstreamIsHtml) =>
             response.statusCode = 502)
    /\ [][(ppc = "awaiting" /\ upstream' # None /\ UpstreamIsHtml') =>
             cacheFiles' = cacheFiles]_vars
    /\ [](\A t \in DOMAIN cacheFiles :
             /\ cacheFiles[t].status \in 200..299
             /\ cacheFiles[t].body \in UpstreamBodies
             /\ LooksLikeJson(cacheFiles[t].body))

\* the padded array was cached for the target with the query string, and a
\* later event for that target is served from the file
C26_Witness ==
    /\ deployed = "part_003"
    /\ ppc = "idle"
    /\ pevent # None
    /\ ~EventThrows(pevent)
    /\ pevent.rawQueryString # <<>>
    /\ upstream = None
    /\ response # None
    /\ response.statusCode = 200
    /\ response.headers["X-Cache"] = "HIT"
    /\ response.body = <<" ", "[", "]">>
    /\ \E t \in DOMAIN cacheFiles : ~cacheFiles[t].young

(***************************************************************************)
(* Properties of the load effect                                           *)
(***************************************************************************)
\* a step in which the effect runs again
EffectRan == Len(effects') = Len(effects) + 1

\* the steps in which request kind of instance i settles
FgSettles(i) == effects[i].fg = "pending" /\ effects'[i].fg # "pending"

BgSettles(i) == effects[i].bg = "pending" /\ effects'[i].bg # "pending"

\* the entry a successful request for endpoint e leaves in the cache
Refreshed(e) == [data |-> [endpoint |-> e, version |-> 1], age |-> "fresh"]

\* storage holds for key what it held in before, or value
OnlyOverwrites(before, storage, key, value) ==
    /\ DOMAIN storage = DOMAIN before \cup {key}
    /\ storage[key] = value
    /\ \A k \in DOMAIN before : k # key => storage[k] = before[k]

\* when the effect runs for a cached endpoint: an entry that parses and is
\* younger than 7 days is displayed at once, without a foreground request,
\* and a background request is started iff it is older than 1 day; in every
\* other case a foreground request is made, an unparseable entry being
\* removed first
LoadRule ==
    [][(EffectRan /\ UsesCache(component, active')) =>
          LET key == [name |-> "metaforge-cache-v1", endpoint |-> active']
              new == effects'[Len(effects')]
          IN IF /\ key \in DOMAIN localStorage
                /\ "age" \in DOMAIN localStorage[key]
                /\ localStorage[key].age \in {"fresh", "stale"}
             THEN /\ data' = localStorage[key].data
                  /\ ~loading'
                  /\ new.fg = "none"
                  /\ new.bg = IF localStorage[key].age = "stale" THEN "pending" ELSE "none"
                  /\ localStorage' = localStorage
             ELSE /\ new.fg = "pending"
                  /\ new.bg = "none"
                  /\ loading'
                  /\ data' = data
                  /\ IF key \in DOMAIN localStorage /\ "age" \notin DOMAIN localStorage[key]
                     THEN /\ key \notin DOMAIN localStorage'
                          /\ \A k \in DOMAIN localStorage \ {key} :
                                 k \in DOMAIN localStorage' /\ localStorage'[k] = localStorage[k]
                     ELSE localStorage' = localStorage]_vars

\* a background request that settles leaves data, loading and error alone;
\* its failure leaves the cache alone, its success at most overwrites the
\* entry of its endpoint
BackgroundRule ==
    [][\A i \in 1..Len(effects) :
          BgSettles(i) =>
              /\ data' = data
              /\ loading' = loading
              /\ error' = error
              /\ \/ localStorage' = localStorage
                 \/ /\ effects'[i].bg = "ok"
                    /\ OnlyOverwrites(localStorage, localStorage',
                                      [name |-> "metaforge-cache-v1",
                                       endpoint |-> effects[i].endpoint],
                                      Refreshed(effects[i].endpoint))]_vars

C28_NoSupersededData ==
    /\ [][\A i \in 1..Len(effects) :
             (FgSettles(i) /\ effects[i].ignore) =>
                 /\ data' = data
                 /\ error' = error
                 /\ loading' = loading
                 /\ localStorage' = localStorage]_vars
    /\ []((/\ mounted
           /\ effects # <<>>
           /\ effects[Len(effects)].fg # "pending"
           /\ data # <<>>) => data.endpoint = active)

\* the request of effect instance i is resolved: loading is false, and data
\* was set by the instance from the cache or from its response, or error is
\* set
Resolved(i) ==
    /\ ~loading
    /\ effects[i].fg # "pending"
    /\ \/ (shown # None /\ shown.by = i /\ shown.via \in {"cache", "response"})
       \/ error # Null

\* C29: while the component stays mounted on the endpoint of effect
\* instance i, the instance's request gets resolved, and once resolved it
\* stays so: loading goes from false to true only when the effect runs
\* again; and a background request that fails leaves error alone.
C29_LoadingResolves ==
    /\ \A i \in 1..MaxEffects :
           (mounted /\ Len(effects) = i) ~> (~mounted \/ Len(effects) # i \/ Resolved(i))
    /\ [][(~loading /\ loading') => EffectRan]_vars
    /\ [][(/\ effects # <<>>
           /\ Resolved(Len(effects))
           /\ ~EffectRan) => Resolved(Len(effects))']_vars
    /\ [][\A i \in 1..Len(effects) :
             (BgSettles(i) /\ effects'[i].bg = "failed") =>
                 (error' = error /\ loading' = loading /\ data' = data)]_vars

\* ArcExplorer on items over an entry older than 1 day: displayed from the
\* cache, the background request has failed, and error is still null
C29_Witness ==
    /\ component = "ArcExplorer"
    /\ mounted
    /\ Len(effects) = 1
    /\ active = ItemsJson
    /\ effects[1].bg = "failed"
    /\ Resolved(1)
    /\ shown.via = "cache"
    /\ error = Null

=============================================================================
